-------------------------- MODULE Treasury_proofs --------------------------
(***************************************************************************)
(* Proofs about Treasury, for any departments, members, calls, balances    *)
(* and number of callers, with deadlocks, lost connections and direct      *)
(* operations on the ledger: the cached balance of a department follows    *)
(* the ledger's wherever nothing came between them; and the books balance: *)
(* no debt and no point from nowhere, what is recorded of welfare and      *)
(* issuances is what the ledger made of them, a bounded overshoot.         *)
(***************************************************************************)
EXTENDS Treasury, FunctionTheorems, SequenceTheorems, FiniteSetTheorems,
        WellFoundedInduction, TLAPS

\* Where a call has read and written nothing yet.
Before == {"idle", "plan", "acquire", "read", "sum", "permit"}

DraftShape(w) ==
    /\ w = [ledger |-> w.ledger, gov |-> w.gov, moved |-> w.moved,
            adjusted |-> w.adjusted, locks |-> w.locks]
    /\ w.ledger \in [Accounts -> Int] /\ w.moved \in Nat
    /\ \A d \in Departments : d \in DOMAIN w.gov => w.gov[d] \in Int

SeenShape(s) ==
    /\ s = [gov |-> s.gov, econ |-> s.econ, econTo |-> s.econTo, paid |-> s.paid]
    /\ s.econ \in Int /\ s.econTo \in Int /\ s.paid \in BOOLEAN
    /\ \A d \in Departments : d \in DOMAIN s.gov => s.gov[d] \in Int

\* What a call writes concerns the departments it is about; what it has paid on
\* another connection it remembers until its end.
CallShape(p) ==
    LET c == call[p]
        s == seen[p]
        w == draft[p]
    IN  /\ SeenShape(s) /\ DraftShape(w)
        /\ IF at[p] = "idle" THEN c = NoCall /\ todo[p] = <<>> /\ p \notin overlapped
           ELSE c \in Calls
        /\ at[p] \in Before => w = EmptyDraft /\ s = NothingSeen
        /\ at[p] \notin Before /\ c.op # "auto" => Touches(c) \subseteq DOMAIN s.gov
        /\ at[p] \in {"snapshot", "align"} /\ c.op = "ensure" => todo[p] # <<>>
        /\ c.op = "ensure" => todo[p] \in Seq([dept: Departments, amount: {0}])
        /\ s.paid => c.op \in {"between", "tax"} /\ at[p] \in {"govFrom", "govTo", "commit"}
        /\ c.op \in {"between", "tax", "ensure"} => w.moved = 0
        /\ \A d \in Departments \ Touches(c) : w.ledger[d] = 0 /\ d \notin DOMAIN w.gov

Shape ==
    /\ ledger \in [Accounts -> Int] /\ gov \in [Departments -> Int]
    /\ at = [p \in Callers |-> at[p]] /\ call = [p \in Callers |-> call[p]]
    /\ seen = [p \in Callers |-> seen[p]] /\ draft = [p \in Callers |-> draft[p]]
    /\ todo = [p \in Callers |-> todo[p]]
    /\ \A p \in Callers : CallShape(p)

\* Calls that meet on a department know of it, both.
MeetingsAreKnown ==
    \A p, q \in Callers :
        /\ p # q /\ at[p] # "idle" /\ at[q] # "idle"
        /\ Touches(call[p]) \cap Touches(call[q]) # {}
        => p \in overlapped /\ q \in overlapped

\* The drafted cached balance of department d is what the drafted transfers of
\* call p leave of the ledger's.
Drafted(p, d) ==
    LET w == draft[p]
    IN  IF d \in DOMAIN w.gov THEN w.gov[d] = ledger[d] + w.ledger[d] ELSE w.ledger[d] = 0

\* Where a call that meets no other stands with a department whose balances
\* agreed when it began.
FollowsWelfare(p, d) ==
    LET w == draft[p]
    IN  /\ at[p] = "commit" /\ w.moved > 0 => d \in DOMAIN w.gov /\ Drafted(p, d)
        /\ call[p].op = "welfare" /\ at[p] \in {"govFrom", "commit"} => w.moved > 0

FollowsIssue(p, d) ==
    LET w == draft[p]
    IN  /\ at[p] = "mint" => d \notin DOMAIN w.gov /\ w.ledger[d] = 0
        /\ at[p] = "govTo" =>
              /\ d \notin DOMAIN w.gov
              /\ w.ledger[d] = IF d = Bank THEN call[p].amount ELSE 0
        /\ at[p] \in {"mint", "govTo"} => seen[p].gov[d] = gov[d]
        /\ at[p] = "commit" => Drafted(p, d)

FollowsTax(p, d) ==
    LET w == draft[p]
        s == seen[p]
    IN  /\ w.ledger[d] = 0
        /\ s.paid => ledger[d] = gov[d] + call[p].amount
        /\ at[p] \notin Before => s.gov[d] = gov[d]
        /\ at[p] = "commit" => d \in DOMAIN w.gov /\ w.gov[d] = gov[d] + call[p].amount

FollowsBetween(p, d) ==
    LET w == draft[p]
        s == seen[p]
        c == call[p]
    IN  /\ w.ledger[d] = 0
        /\ at[p] \notin Before => s.gov[d] = gov[d]
        /\ d = c.from =>
              /\ at[p] # "grant"
              /\ at[p] \in {"econTo", "borrow", "payout"} => s.econ = ledger[d]
              /\ at[p] = "govFrom" /\ s.paid =>
                    ledger[d] = s.econ - c.amount /\ s.econ >= c.amount
              /\ at[p] \in {"govTo", "commit"} /\ s.paid =>
                    d \in DOMAIN w.gov /\ w.gov[d] = ledger[d]
        /\ d = c.to =>
              /\ at[p] \in {"borrow", "payout"} => s.econTo = ledger[d]
              /\ s.paid => ledger[d] = s.econTo + c.amount
              /\ at[p] = "commit" => d \in DOMAIN w.gov /\ w.gov[d] = s.econTo + c.amount

FollowsDeduction(p, d) ==
    LET w == draft[p]
    IN  /\ w.moved = 0 => d \notin DOMAIN w.gov /\ w.ledger[d] = 0
        /\ at[p] = "govFrom" => w.moved > 0
        /\ d # call[p].to /\ ~(at[p] = "govFrom" /\ d = Payer(p)) => Drafted(p, d)

Follows(p, d) ==
    LET op == call[p].op
    IN  /\ ~seen[p].paid => gov[d] = ledger[d]
        /\ op \in {"welfare", "touser"} => FollowsWelfare(p, d)
        /\ op = "issue" => FollowsIssue(p, d)
        /\ op = "tax" => FollowsTax(p, d)
        /\ op = "between" => FollowsBetween(p, d)
        /\ op = "auto" => FollowsDeduction(p, d)

\* A panel that opens has aligned d, or finds nothing to align, or comes to it.
Aligns(p, d) ==
    LET w == draft[p]
        aligned == IF d \in DOMAIN w.gov THEN w.gov[d] = ledger[d] ELSE gov[d] = ledger[d]
    IN  /\ w.ledger[d] = 0
        /\ d \in DOMAIN w.gov => w.gov[d] = ledger[d]
        /\ at[p] \in {"snapshot", "align"} =>
              /\ seen[p].gov[d] = gov[d]
              /\ aligned \/ \E i \in DOMAIN todo[p] : todo[p][i].dept = d
        /\ at[p] = "align" => seen[p].econ = ledger[Head(todo[p]).dept]
        /\ at[p] = "commit" => aligned

AlonesFollow ==
    \A p \in Callers, d \in Departments :
        /\ at[p] # "idle" /\ p \notin overlapped /\ d \in Touches(call[p])
        => /\ d \in clean => Follows(p, d)
           /\ call[p].op = "ensure" => Aligns(p, d)

\* A department that no call has come further with than its plan.
RestingAgree ==
    \A d \in clean :
        (\A p \in Callers : at[p] # "idle" /\ d \in Touches(call[p]) => at[p] = "plan")
        => gov[d] = ledger[d]

GInv ==
    /\ Shape /\ overlapped \subseteq Callers /\ clean \subseteq Departments
    /\ MeetingsAreKnown /\ AlonesFollow /\ RestingAgree

-----------------------------------------------------------------------------
(* Calls, and the frame of a step: what it leaves to the others *)

LEMMA CallsAreKnown ==
    ASSUME NEW c \in Calls
    PROVE  /\ c.op \in Ops /\ c.op # "none" /\ c.amount \in Nat
           /\ c.from \in Accounts /\ c.to \in Accounts
           /\ c.op # "ensure" => c.amount > 0
           /\ c.op \in {"between", "touser", "welfare"} => c.from \in Departments
           /\ c.op \in {"touser", "welfare"} => c.to \in Users /\ c.to \notin Departments
           /\ c.op = "between" => c.to \in Departments /\ c.from # c.to
           /\ c.op = "tax" => c.from \in Users /\ c.from \notin Departments /\ c.to \in Departments
           /\ c.op = "issue" => c.to = Bank
<1>1. c \in CallType
  BY CallsAssumption
<1>2. Departments \cap Users = {}
  BY AccountsAssumption
<1> QED  BY <1>1, <1>2, CallsAssumption DEF CallType, Ops

LEMMA TouchesDepartments ==
    ASSUME NEW c
    PROVE  /\ Touches(c) \subseteq Departments
           /\ c.op \in {"auto", "ensure"} => Touches(c) = Departments
           /\ c.op \notin {"auto", "ensure"} =>
                 \A d \in Departments : d \in Touches(c) <=> d = c.from \/ d = c.to
BY DEF Touches

\* Follows and Aligns speak of one call and one department.
LEMMA FollowsIsLocal ==
    ASSUME NEW p, NEW d, Follows(p, d),
           at'[p] = at[p], call'[p] = call[p], seen'[p] = seen[p], draft'[p] = draft[p],
           todo'[p] = todo[p], ledger'[d] = ledger[d], gov'[d] = gov[d]
    PROVE  Follows(p, d)'
BY DEF Follows, FollowsWelfare, FollowsIssue, FollowsTax, FollowsBetween, FollowsDeduction,
       Drafted, Payer

LEMMA AlignsIsLocal ==
    ASSUME NEW p, NEW d, Aligns(p, d),
           at'[p] = at[p], seen'[p] = seen[p], draft'[p] = draft[p],
           todo'[p] = todo[p], ledger'[d] = ledger[d], gov'[d] = gov[d],
           at[p] = "align" => ledger'[Head(todo[p]).dept] = ledger[Head(todo[p]).dept]
    PROVE  Aligns(p, d)'
BY DEF Aligns

LEMMA ShapeIsLocal ==
    ASSUME NEW p, CallShape(p),
           at'[p] = at[p], call'[p] = call[p], seen'[p] = seen[p], draft'[p] = draft[p],
           todo'[p] = todo[p], p \in overlapped' => p \in overlapped \/ at[p] # "idle"
    PROVE  CallShape(p)'
BY DEF CallShape

\* What every step leaves alone of the calls other than p.
OthersKept(p) ==
    /\ at' = [q \in Callers |-> at'[q]] /\ call' = [q \in Callers |-> call'[q]]
    /\ seen' = [q \in Callers |-> seen'[q]] /\ draft' = [q \in Callers |-> draft'[q]]
    /\ todo' = [q \in Callers |-> todo'[q]]
    /\ \A q \in Callers \ {p} :
          /\ at'[q] = at[q] /\ call'[q] = call[q] /\ seen'[q] = seen[q]
          /\ draft'[q] = draft[q] /\ todo'[q] = todo[q]

\* The tables after a step of p: it moves the balances of its departments only.
TablesKept(p) ==
    /\ ledger' \in [Accounts -> Int] /\ gov' \in [Departments -> Int]
    /\ \A d \in Departments \ Touches(call[p]) : ledger'[d] = ledger[d] /\ gov'[d] = gov[d]

\* The first entry of a list of departments is about one.
LEMMA HeadIsDepartment ==
    ASSUME NEW p \in Callers, CallShape(p), call[p].op = "ensure",
           at[p] \in {"snapshot", "align"}
    PROVE  /\ Head(todo[p]).dept \in Departments
           /\ todo[p] \in Seq([dept: Departments, amount: {0}]) /\ todo[p] # <<>>
<1>1. todo[p] \in Seq([dept: Departments, amount: {0}]) /\ todo[p] # <<>>
  BY DEF CallShape
<1> PICK R : R = [dept: Departments, amount: {0}]
  OBVIOUS
<1>2. Head(todo[p]) \in R
  BY <1>1, HeadTailProperties
<1> QED  BY <1>1, <1>2

\* Whoever meets nobody is not disturbed by a step of p.
LEMMA OthersFollow ==
    ASSUME GInv, NEW p \in Callers, at[p] # "idle", OthersKept(p), TablesKept(p),
           overlapped \ {p} \subseteq overlapped',
           \A d \in Departments : d \in clean' => d \in clean \/ d \in Touches(call[p]),
           NEW q \in Callers, q # p, at'[q] # "idle", q \notin overlapped',
           NEW d \in Departments, d \in Touches(call'[q])
    PROVE  /\ d \notin Touches(call[p])
           /\ d \in clean' => Follows(q, d)'
           /\ call'[q].op = "ensure" => Aligns(q, d)'
<1>1. /\ at'[q] = at[q] /\ call'[q] = call[q] /\ seen'[q] = seen[q]
      /\ draft'[q] = draft[q] /\ todo'[q] = todo[q] /\ q \notin overlapped
  BY DEF OthersKept
<1>2. Touches(call[p]) \cap Touches(call[q]) = {}
  BY <1>1 DEF GInv, MeetingsAreKnown
<1>3. d \notin Touches(call[p]) /\ ledger'[d] = ledger[d] /\ gov'[d] = gov[d]
  BY <1>1, <1>2 DEF TablesKept
<1>4. d \in clean' => Follows(q, d)
  BY <1>1, <1>3 DEF GInv, AlonesFollow
<1>5. d \in clean' => Follows(q, d)'
  BY <1>1, <1>3, <1>4, FollowsIsLocal
<1>6. ASSUME call[q].op = "ensure" PROVE Aligns(q, d)'
  <2>1. Aligns(q, d)
    BY <1>1, <1>6 DEF GInv, AlonesFollow
  <2>2. Touches(call[q]) = Departments
    BY <1>6, TouchesDepartments
  <2>3. \A e \in Departments : ledger'[e] = ledger[e]
    BY <1>2, <2>2 DEF TablesKept
  <2>4. at[q] = "align" => Head(todo[q]).dept \in Departments
    BY <1>6, HeadIsDepartment DEF GInv, Shape
  <2> QED  BY <1>1, <1>3, <2>1, <2>3, <2>4, AlignsIsLocal
<1> QED  BY <1>1, <1>3, <1>5, <1>6

\* A step of p that ends no call.
Working(p) ==
    /\ at[p] # "idle" /\ at'[p] \notin {"idle", "plan"}
    /\ OthersKept(p) /\ TablesKept(p)
    /\ call'[p] = call[p] /\ overlapped' = overlapped /\ clean' = clean

LEMMA WorkingKeeps ==
    ASSUME GInv, NEW p \in Callers, Working(p), CallShape(p)',
           p \notin overlapped =>
              \A d \in Departments : d \in Touches(call[p]) =>
                  /\ d \in clean => Follows(p, d)'
                  /\ call[p].op = "ensure" => Aligns(p, d)'
    PROVE  GInv'
<1>1. /\ at[p] # "idle" /\ at'[p] # "idle" /\ at'[p] # "plan" /\ OthersKept(p) /\ TablesKept(p)
      /\ call'[p] = call[p] /\ overlapped' = overlapped /\ clean' = clean
  BY DEF Working
<1>2. Shape'
  <2>1. ASSUME NEW q \in Callers PROVE CallShape(q)'
    <3>1. CASE q = p
      BY <3>1
    <3>2. CASE q # p
      <4>1. CallShape(q)
        BY DEF GInv, Shape
      <4> QED  BY <1>1, <3>2, <4>1, ShapeIsLocal DEF OthersKept
    <3> QED  BY <3>1, <3>2
  <2> QED  BY <1>1, <2>1 DEF Shape, OthersKept, TablesKept
<1>3. \A q \in Callers : call'[q] = call[q] /\ (at'[q] # "idle" <=> at[q] # "idle")
  BY <1>1 DEF OthersKept
<1>4. MeetingsAreKnown'
  BY <1>1, <1>3 DEF GInv, MeetingsAreKnown
<1>5. AlonesFollow'
  <2> SUFFICES ASSUME NEW q \in Callers, NEW d \in Departments,
                      at'[q] # "idle", q \notin overlapped', d \in Touches(call'[q])
               PROVE  /\ d \in clean' => Follows(q, d)'
                      /\ call'[q].op = "ensure" => Aligns(q, d)'
    BY DEF AlonesFollow, Touches
  <2>1. CASE q = p
    BY <1>1, <2>1
  <2>2. CASE q # p
    BY <1>1, <2>2, OthersFollow
  <2> QED  BY <2>1, <2>2
<1>6. RestingAgree'
  <2> SUFFICES ASSUME NEW d \in clean',
                      \A q \in Callers : at'[q] # "idle" /\ d \in Touches(call'[q]) => at'[q] = "plan"
               PROVE  gov'[d] = ledger'[d]
    BY DEF RestingAgree, Touches
  <2>1. d \in clean /\ d \in Departments
    BY <1>1 DEF GInv
  <2>2. d \notin Touches(call[p])
    BY <1>1
  <2>3. \A q \in Callers : at[q] # "idle" /\ d \in Touches(call[q]) => at[q] = "plan"
    BY <1>1, <1>3, <2>2 DEF OthersKept
  <2>4. gov[d] = ledger[d]
    BY <2>1, <2>3 DEF GInv, RestingAgree
  <2> QED  BY <1>1, <2>1, <2>2, <2>4 DEF TablesKept
<1> QED  BY <1>1, <1>2, <1>4, <1>5, <1>6 DEF GInv

\* The end of a call of p: what stays clean of its departments agrees.
LEMMA EndKeeps ==
    ASSUME GInv, NEW p \in Callers, at[p] # "idle", Finish(p), TablesKept(p),
           clean' \subseteq Departments,
           \A d \in Departments : d \in clean' => d \in clean \/ d \in Touches(call[p]),
           \A d \in Departments :
               /\ d \in clean' /\ d \in Touches(call[p])
               /\ \A q \in Callers \ {p} :
                     at[q] # "idle" /\ d \in Touches(call[q]) => at[q] = "plan"
               => gov'[d] = ledger'[d]
    PROVE  GInv'
<1>1. /\ OthersKept(p) /\ overlapped' = overlapped \ {p}
      /\ at'[p] = "idle" /\ call'[p] = NoCall /\ seen'[p] = NothingSeen
      /\ draft'[p] = EmptyDraft /\ todo'[p] = <<>>
  BY DEF GInv, Shape, Finish, OthersKept, Goto, See, Draft
<1>2. Shape'
  <2>1. ASSUME NEW q \in Callers PROVE CallShape(q)'
    <3>1. CASE q = p
      <4>1. SeenShape(NothingSeen) /\ DraftShape(EmptyDraft)
        BY DEF SeenShape, DraftShape, NothingSeen, EmptyDraft
      <4>2. NoCall.op = "none"
        BY DEF NoCall
      <4>3. \A d \in Departments : EmptyDraft.ledger[d] = 0 /\ d \notin DOMAIN EmptyDraft.gov
        BY DEF EmptyDraft, Accounts
      <4>4. "idle" \in Before /\ NothingSeen.paid = FALSE
        BY DEF Before, NothingSeen
      <4> QED  BY <1>1, <3>1, <4>1, <4>2, <4>3, <4>4 DEF CallShape
    <3>2. CASE q # p
      <4>1. CallShape(q)
        BY DEF GInv, Shape
      <4> QED  BY <1>1, <3>2, <4>1, ShapeIsLocal DEF OthersKept
    <3> QED  BY <3>1, <3>2
  <2> QED  BY <1>1, <2>1 DEF Shape, OthersKept, TablesKept
<1>3. \A q \in Callers : at'[q] # "idle" => q # p /\ at[q] # "idle" /\ call'[q] = call[q]
  BY <1>1 DEF OthersKept
<1>4. MeetingsAreKnown'
  BY <1>1, <1>3 DEF GInv, MeetingsAreKnown
<1>5. AlonesFollow'
  <2> SUFFICES ASSUME NEW q \in Callers, NEW d \in Departments,
                      at'[q] # "idle", q \notin overlapped', d \in Touches(call'[q])
               PROVE  /\ d \in clean' => Follows(q, d)'
                      /\ call'[q].op = "ensure" => Aligns(q, d)'
    BY DEF AlonesFollow, Touches
  <2>1. q # p /\ overlapped \ {p} \subseteq overlapped'
    BY <1>1, <1>3
  <2> QED  BY <1>1, <2>1, OthersFollow
<1>6. RestingAgree'
  <2> SUFFICES ASSUME NEW d \in clean',
                      \A q \in Callers : at'[q] # "idle" /\ d \in Touches(call'[q]) => at'[q] = "plan"
               PROVE  gov'[d] = ledger'[d]
    BY DEF RestingAgree, Touches
  <2>1. \A q \in Callers \ {p} : at[q] # "idle" /\ d \in Touches(call[q]) => at[q] = "plan"
    BY <1>1 DEF OthersKept
  <2>2. d \in Departments
    OBVIOUS
  <2>3. CASE d \in Touches(call[p])
    BY <2>1, <2>2, <2>3
  <2>4. CASE d \notin Touches(call[p])
    <3>1. d \in clean
      BY <2>2, <2>4
    <3>2. \A q \in Callers : at[q] # "idle" /\ d \in Touches(call[q]) => at[q] = "plan"
      BY <2>1, <2>4
    <3>3. gov[d] = ledger[d]
      BY <3>1, <3>2 DEF GInv, RestingAgree
    <3> QED  BY <2>2, <2>4, <3>3 DEF TablesKept
  <2> QED  BY <2>3, <2>4
<1> QED  BY <1>1, <1>2, <1>4, <1>5, <1>6 DEF GInv

-----------------------------------------------------------------------------
(* The fields of what a call has seen and drafted *)

LEMMA NothingYet ==
    /\ SeenShape(NothingSeen) /\ DraftShape(EmptyDraft)
    /\ NothingSeen.paid = FALSE /\ EmptyDraft.moved = 0
    /\ \A d \in Departments : EmptyDraft.ledger[d] = 0 /\ d \notin DOMAIN EmptyDraft.gov
BY DEF SeenShape, DraftShape, NothingSeen, EmptyDraft, Accounts

\* A department's cached balance in a draft, with its row locked.
LEMMA SetGovFields ==
    ASSUME NEW w, DraftShape(w), NEW p, NEW dept, NEW n, NEW v, v = Lock(p, SetGov(w, dept, n))
    PROVE  /\ v = [ledger |-> v.ledger, gov |-> v.gov, moved |-> v.moved,
                   adjusted |-> v.adjusted, locks |-> v.locks]
           /\ v.ledger = w.ledger /\ v.moved = w.moved
           /\ v.adjusted = w.adjusted /\ v.locks = w.locks \cup Wanted(p)
           /\ DOMAIN v.gov = DOMAIN w.gov \cup {dept}
           /\ \A d \in DOMAIN v.gov : v.gov[d] = IF d = dept THEN n ELSE w.gov[d]
<1> PICK g : g = [e \in DOMAIN w.gov \cup {dept} |-> IF e = dept THEN n ELSE w.gov[e]]
  OBVIOUS
<1>1. w = [ledger |-> w.ledger, gov |-> w.gov, moved |-> w.moved,
           adjusted |-> w.adjusted, locks |-> w.locks]
  BY DEF DraftShape
<1>2. SetGov(w, dept, n) = [ledger |-> w.ledger, gov |-> g, moved |-> w.moved,
                            adjusted |-> w.adjusted, locks |-> w.locks]
  BY <1>1 DEF SetGov
<1> PICK L : L = w.locks \cup Wanted(p)
  OBVIOUS
<1>3. v = [ledger |-> w.ledger, gov |-> g, moved |-> w.moved,
           adjusted |-> w.adjusted, locks |-> L]
  BY <1>2 DEF Lock
<1> QED  BY <1>3

\* A drafted transfer or grant, with its rows locked.
LEMMA BookedFields ==
    ASSUME NEW w, NEW p, NEW b, NEW m, NEW n, NEW v, v = Lock(p, Booked(w, b, m, n))
    PROVE  /\ v = [ledger |-> v.ledger, gov |-> v.gov, moved |-> v.moved,
                   adjusted |-> v.adjusted, locks |-> v.locks]
           /\ v.ledger = b /\ v.moved = w.moved + m /\ v.gov = w.gov
           /\ v.adjusted = w.adjusted + n /\ v.locks = w.locks \cup Wanted(p)
<1> PICK L : L = w.locks \cup Wanted(p)
  OBVIOUS
<1>1. v = [ledger |-> b, gov |-> w.gov, moved |-> w.moved + m,
           adjusted |-> w.adjusted + n, locks |-> L]
  BY DEF Lock, Booked
<1> QED  BY <1>1

Plans(p, l) == todo' = [todo EXCEPT ![p] = l]

\* A step of p that goes on, in general.
LEMMA StepFrame ==
    ASSUME GInv, NEW p \in Callers, NEW step, step \notin {"idle", "plan"}, at[p] # "idle",
           Goto(p, step), NEW s, See(p, s), NEW w, Draft(p, w),
           NEW l, Plans(p, l),
           call' = call, overlapped' = overlapped, clean' = clean, gov' = gov,
           ledger' \in [Accounts -> Int],
           \A d \in Departments : d \notin Touches(call[p]) => ledger'[d] = ledger[d]
    PROVE  /\ Working(p) /\ at'[p] = step /\ seen'[p] = s /\ draft'[p] = w /\ todo'[p] = l
           /\ gov' = gov /\ clean' = clean /\ call'[p] = call[p] /\ overlapped' = overlapped
<1>1. /\ at = [q \in Callers |-> at[q]] /\ call = [q \in Callers |-> call[q]]
      /\ seen = [q \in Callers |-> seen[q]] /\ draft = [q \in Callers |-> draft[q]]
      /\ todo = [q \in Callers |-> todo[q]] /\ gov \in [Departments -> Int]
  BY DEF GInv, Shape
<1>2. at' = [q \in Callers |-> IF q = p THEN step ELSE at[q]]
  BY <1>1 DEF Goto
<1>3. seen' = [q \in Callers |-> IF q = p THEN s ELSE seen[q]]
  BY <1>1 DEF See
<1>4. draft' = [q \in Callers |-> IF q = p THEN w ELSE draft[q]]
  BY <1>1 DEF Draft
<1>5. todo' = [q \in Callers |-> IF q = p THEN l ELSE todo[q]]
  BY <1>1 DEF Plans
<1>6. OthersKept(p)
  BY <1>1, <1>2, <1>3, <1>4, <1>5 DEF OthersKept
<1>7. TablesKept(p)
  BY <1>1 DEF TablesKept
<1> QED  BY <1>2, <1>3, <1>4, <1>5, <1>6, <1>7 DEF Working

\* The same for a step that leaves the ledger, and reads, writes or plans nothing.
LEMMA Unchanged ==
    ASSUME GInv, NEW p \in Callers
    PROVE  /\ seen = seen' => See(p, seen[p])
           /\ draft = draft' => Draft(p, draft[p])
           /\ todo = todo' => Plans(p, todo[p])
           /\ ledger' = ledger => ledger' \in [Accounts -> Int]
           /\ CallShape(p)
           /\ p \notin overlapped /\ at[p] # "idle" =>
                 \A d \in Departments : d \in Touches(call[p]) =>
                     /\ d \in clean => Follows(p, d)
                     /\ call[p].op = "ensure" => Aligns(p, d)
BY DEF GInv, Shape, AlonesFollow, See, Draft, Plans

-----------------------------------------------------------------------------
(* The statements of a call *)

LEMMA AcquireKeeps ==
    ASSUME GInv, NEW p \in Callers, Acquire(p)
    PROVE  GInv'
<1> PICK step : step = IF call[p].op = "auto" THEN "pay"
                       ELSE IF call[p].op = "issue" THEN "sum" ELSE "read"
  OBVIOUS
<1>1. /\ CallShape(p) /\ at[p] = "acquire" /\ seen[p] = NothingSeen /\ draft[p] = EmptyDraft
  BY Unchanged DEF Acquire, CallShape, Before
<1>2. /\ Goto(p, step) /\ UNCHANGED <<ledger, gov, call, seen, draft, todo, overlapped, clean>>
  BY DEF Acquire, tables, private, history
<1>3. /\ Working(p) /\ at'[p] = step /\ seen'[p] = seen[p] /\ draft'[p] = draft[p]
      /\ todo'[p] = todo[p] /\ gov' = gov /\ clean' = clean /\ call'[p] = call[p]
      /\ overlapped' = overlapped
  <2>1. /\ See(p, seen[p]) /\ Draft(p, draft[p]) /\ Plans(p, todo[p])
        /\ ledger' \in [Accounts -> Int]
    BY <1>2, Unchanged
  <2>2. step \notin {"idle", "plan"} /\ at[p] # "idle"
    BY <1>1
  <2> QED  BY <1>2, <2>1, <2>2, StepFrame
<1>4. step \in {"pay", "sum", "read"} /\ (step = "pay" => call[p].op = "auto")
  OBVIOUS
<1>5. CallShape(p)'
  BY <1>1, <1>3, <1>4, NothingYet DEF CallShape, Before
<1>6. ASSUME p \notin overlapped, NEW d \in Departments, d \in Touches(call[p])
      PROVE  /\ d \in clean => Follows(p, d)'
             /\ call[p].op = "ensure" => Aligns(p, d)'
  <2>1. /\ d \in clean => Follows(p, d)
        /\ call[p].op = "ensure" => Aligns(p, d)
    BY <1>1, <1>6, Unchanged
  <2>2. ASSUME d \in clean PROVE Follows(p, d)'
    <3>1. gov[d] = ledger[d] /\ ~seen[p].paid
      BY <1>1, <2>1, <2>2, NothingYet DEF Follows
    <3>2. draft[p].ledger[d] = 0 /\ d \notin DOMAIN draft[p].gov /\ draft[p].moved = 0
      BY <1>1, NothingYet
    <3> QED  BY <1>2, <1>3, <1>4, <3>1, <3>2
             DEF Follows, FollowsWelfare, FollowsIssue, FollowsTax, FollowsBetween,
                 FollowsDeduction, Drafted, Before
  <2>3. ASSUME call[p].op = "ensure" PROVE Aligns(p, d)'
    BY <1>2, <1>3, <1>4, <2>1, <2>3 DEF Aligns
  <2> QED  BY <2>2, <2>3
<1> QED  BY <1>3, <1>5, <1>6, WorkingKeeps

LEMMA SumKeeps ==
    ASSUME GInv, NEW p \in Callers, at[p] \in {"sum", "permit"}, call[p].op = "issue",
           NEW step \in {"permit", "read"}, Goto(p, step),
           UNCHANGED <<ledger, gov, call, seen, draft, todo, overlapped, clean>>
    PROVE  GInv'
<1>1. /\ CallShape(p) /\ seen[p] = NothingSeen /\ draft[p] = EmptyDraft
  BY Unchanged DEF CallShape, Before
<1>3. /\ Working(p) /\ at'[p] = step /\ seen'[p] = seen[p] /\ draft'[p] = draft[p]
      /\ todo'[p] = todo[p] /\ gov' = gov /\ clean' = clean /\ call'[p] = call[p]
      /\ overlapped' = overlapped
  <2>1. /\ See(p, seen[p]) /\ Draft(p, draft[p]) /\ Plans(p, todo[p])
        /\ ledger' \in [Accounts -> Int]
    BY Unchanged
  <2> QED  BY <2>1, StepFrame
<1>5. CallShape(p)'
  BY <1>1, <1>3, NothingYet DEF CallShape, Before
<1>6. ASSUME p \notin overlapped, NEW d \in Departments, d \in Touches(call[p])
      PROVE  /\ d \in clean => Follows(p, d)'
             /\ call[p].op = "ensure" => Aligns(p, d)'
  <2>1. d \in clean => Follows(p, d)
    BY <1>1, <1>6, Unchanged
  <2> QED  BY <1>1, <1>3, <2>1, NothingYet DEF Follows, FollowsIssue
<1> QED  BY <1>3, <1>5, <1>6, WorkingKeeps

LEMMA ReadKeeps ==
    ASSUME GInv, NEW p \in Callers, call[p].op # "auto", Read(p)
    PROVE  GInv'
<1> PICK c : c = call[p]
  OBVIOUS
<1> PICK g : g = [d \in Touches(c) |-> gov[d]]
  OBVIOUS
<1> PICK s : s = [seen[p] EXCEPT !.gov = g]
  OBVIOUS
<1> PICK step : step = IF c.op = "ensure" THEN "snapshot"
                       ELSE IF c.op = "tax" THEN "borrow"
                       ELSE IF c.op = "issue" THEN "mint" ELSE "econ"
  OBVIOUS
<1> PICK all : all = [i \in DOMAIN DepartmentOrder |-> [dept |-> DepartmentOrder[i], amount |-> 0]]
  OBVIOUS
<1> PICK l : l = IF c.op = "ensure" THEN all ELSE todo[p]
  OBVIOUS
<1>1. /\ CallShape(p) /\ at[p] = "read" /\ seen[p] = NothingSeen /\ draft[p] = EmptyDraft
      /\ c \in Calls
  BY Unchanged DEF Read, CallShape, Before
<1>2. /\ See(p, s) /\ Goto(p, step) /\ Plans(p, l)
      /\ UNCHANGED <<ledger, gov, call, draft, overlapped, clean>>
  <2>1. (IF c.op = "ensure" THEN Departments ELSE {c.from, c.to} \cap Departments) = Touches(c)
    BY DEF Touches
  <2>2. c.op # "ensure" => todo' = todo
    BY DEF Read
  <2>3. c.op = "ensure" => todo' = [todo EXCEPT ![p] = all]
    BY DEF Read
  <2> QED  BY <2>1, <2>2, <2>3, Unchanged DEF Read, tables, history, Plans
<1>3. /\ Working(p) /\ at'[p] = step /\ seen'[p] = s /\ draft'[p] = draft[p]
      /\ todo'[p] = l /\ gov' = gov /\ clean' = clean /\ call'[p] = c
      /\ overlapped' = overlapped /\ ledger' = ledger
  <2>1. Draft(p, draft[p]) /\ ledger' \in [Accounts -> Int]
    BY <1>2, Unchanged
  <2>2. step \notin {"idle", "plan"} /\ at[p] # "idle"
    BY <1>1
  <2> QED  BY <1>2, <2>1, <2>2, StepFrame
<1>4. s = [gov |-> g, econ |-> seen[p].econ, econTo |-> seen[p].econTo, paid |-> FALSE]
  <2>1. seen[p].paid = FALSE
    BY <1>1, NothingYet
  <2>2. seen[p] = [gov |-> seen[p].gov, econ |-> seen[p].econ, econTo |-> seen[p].econTo,
                   paid |-> seen[p].paid]
    BY <1>1 DEF CallShape, SeenShape
  <2> QED  BY <2>1, <2>2
<1>5. Touches(c) \subseteq Departments /\ gov \in [Departments -> Int]
  BY TouchesDepartments DEF GInv, Shape
<1>6. SeenShape(s) /\ DOMAIN s.gov = Touches(c) /\ (\A d \in Touches(c) : s.gov[d] = gov[d])
  BY <1>1, <1>4, <1>5, NothingYet DEF SeenShape
<1>7. /\ all \in Seq([dept: Departments, amount: {0}]) /\ all # <<>>
      /\ \A d \in Departments : \E i \in DOMAIN all : all[i].dept = d
  <2>1. DepartmentOrder \in Seq(Departments) /\ Bank \in Departments
    BY AccountsAssumption
  <2>2. \A d \in Departments : \E i \in DOMAIN DepartmentOrder : DepartmentOrder[i] = d
    BY DEF Departments, Range
  <2>3. DOMAIN all = 1..Len(DepartmentOrder) /\ Len(DepartmentOrder) \in Nat
    BY <2>1
  <2>4. \A i \in DOMAIN all : all[i] = [dept |-> DepartmentOrder[i], amount |-> 0]
    OBVIOUS
  <2>5. \A i \in DOMAIN all : all[i] \in [dept: Departments, amount: {0}]
    BY <2>1, <2>3, <2>4
  <2>6. all \in Seq([dept: Departments, amount: {0}])
    BY <2>3, <2>5, IsASeq
  <2>7. \A d \in Departments : \E i \in DOMAIN all : all[i].dept = d
    BY <2>2, <2>3, <2>4
  <2>8. all # <<>>
    <3>1. DOMAIN all # {}
      BY <2>1, <2>7
    <3>2. DOMAIN <<>> = {}
      OBVIOUS
    <3> QED  BY <3>1, <3>2
  <2> QED  BY <2>6, <2>7, <2>8
<1>8. CallShape(p)'
  <2>1. /\ step \in {"snapshot", "borrow", "mint", "econ"} /\ step \notin Before
        /\ c.op = "ensure" => l = all
        /\ c.op # "ensure" => l = todo[p]
    BY DEF Before
  <2>2. p \in overlapped => p \in overlapped'
    BY <1>3
  <2>3. s.paid = FALSE /\ DraftShape(draft[p])
    BY <1>1, <1>4, NothingYet
  <2>4. c.op = "ensure" => l \in Seq([dept: Departments, amount: {0}]) /\ l # <<>>
    BY <1>7, <2>1
  <2>5. c.op \in {"between", "tax", "ensure"} => draft[p].moved = 0
    BY <1>1, NothingYet
  <2>6. \A d \in Departments \ Touches(c) : draft[p].ledger[d] = 0 /\ d \notin DOMAIN draft[p].gov
    BY <1>1, NothingYet
  <2> QED  BY <1>1, <1>3, <1>6, <2>1, <2>3, <2>4, <2>5, <2>6 DEF CallShape
<1>9. ASSUME p \notin overlapped, NEW d \in Departments, d \in Touches(c)
      PROVE  /\ d \in clean => Follows(p, d)'
             /\ c.op = "ensure" => Aligns(p, d)'
  <2>1. d \in clean => Follows(p, d)
    BY <1>1, <1>9, Unchanged
  <2>2. draft[p].ledger[d] = 0 /\ d \notin DOMAIN draft[p].gov /\ draft[p].moved = 0
        /\ ~seen[p].paid
    BY <1>1, NothingYet
  <2>3. ~s.paid /\ s.gov[d] = gov[d]
    BY <1>4, <1>6, <1>9
  <2>4. ASSUME d \in clean PROVE Follows(p, d)'
    <3>1. gov[d] = ledger[d]
      BY <2>1, <2>2, <2>4 DEF Follows
    <3>2. CASE c.op \in {"welfare", "touser"}
      BY <1>3, <2>2, <2>3, <3>1, <3>2 DEF Follows, FollowsWelfare
    <3>3. CASE c.op = "issue"
      BY <1>3, <2>2, <2>3, <3>1, <3>3 DEF Follows, FollowsIssue
    <3>4. CASE c.op = "tax"
      BY <1>3, <2>2, <2>3, <3>1, <3>4 DEF Follows, FollowsTax
    <3>5. CASE c.op = "between"
      BY <1>3, <2>2, <2>3, <3>1, <3>5 DEF Follows, FollowsBetween
    <3>6. CASE c.op = "ensure"
      BY <1>3, <2>3, <3>1, <3>6 DEF Follows
    <3> QED  BY <1>1, <3>2, <3>3, <3>4, <3>5, <3>6, CallsAreKnown DEF Ops
  <2>5. ASSUME c.op = "ensure" PROVE Aligns(p, d)'
    <3>1. step = "snapshot" /\ l = all
      BY <2>5
    <3>2. \E i \in DOMAIN l : l[i].dept = d
      <4>1. \E i \in DOMAIN all : all[i].dept = d
        BY <1>7
      <4> QED  BY <3>1, <4>1
    <3>3. /\ draft'[p].ledger[d] = 0 /\ d \notin DOMAIN draft'[p].gov
          /\ seen'[p].gov[d] = gov'[d] /\ at'[p] = "snapshot" /\ todo'[p] = l
      BY <1>3, <2>2, <2>3, <3>1
    <3> QED  BY <3>2, <3>3 DEF Aligns
  <2> QED  BY <2>4, <2>5
<1> QED  BY <1>3, <1>8, <1>9, WorkingKeeps

LEMMA EconKeeps ==
    ASSUME GInv, NEW p \in Callers, call[p].op \in {"welfare", "touser", "between"}, Econ(p)
    PROVE  GInv'
<1> PICK c : c = call[p]
  OBVIOUS
<1>e. PICK econ : econ = View(p, c.from)
  OBVIOUS
<1>s. PICK s : s = [seen[p] EXCEPT !.econ = econ]
  OBVIOUS
<1>n. PICK needs \in BOOLEAN : needs <=> (seen[p].gov[c.from] >= c.amount /\ econ < c.amount)
  <2>1. CASE seen[p].gov[c.from] >= c.amount /\ econ < c.amount
    BY <2>1
  <2>2. CASE ~(seen[p].gov[c.from] >= c.amount /\ econ < c.amount)
    BY <2>2
  <2> QED  BY <2>1, <2>2
<1>t. PICK step : step = IF needs THEN "grant"
                         ELSE IF c.op = "between" THEN "econTo" ELSE "pay"
  OBVIOUS
<1>1. /\ CallShape(p) /\ at[p] = "econ" /\ c \in Calls /\ SeenShape(seen[p])
      /\ DraftShape(draft[p]) /\ ~seen[p].paid
      /\ c.from \in Departments /\ Departments \subseteq Accounts
      /\ ledger \in [Accounts -> Int] /\ gov \in [Departments -> Int] /\ c.amount \in Nat
  <2>1. CallShape(p) /\ at[p] = "econ"
    BY Unchanged DEF Econ
  <2>2. c \in Calls
    BY <2>1 DEF CallShape
  <2> QED  BY <2>1, <2>2, CallsAreKnown DEF CallShape, GInv, Shape, Accounts
<1>2. /\ See(p, s) /\ Goto(p, step)
      /\ UNCHANGED <<ledger, gov, call, draft, todo, overlapped, clean>>
  BY <1>e, <1>s, <1>n, <1>t DEF Econ, tables, history
<1>3. /\ Working(p) /\ at'[p] = step /\ seen'[p] = s /\ draft'[p] = draft[p]
      /\ todo'[p] = todo[p] /\ gov' = gov /\ clean' = clean /\ call'[p] = c
      /\ overlapped' = overlapped /\ ledger' = ledger
  <2>1. Draft(p, draft[p]) /\ Plans(p, todo[p]) /\ ledger' \in [Accounts -> Int]
    BY <1>2, Unchanged
  <2>2. step \notin {"idle", "plan"} /\ at[p] # "idle"
    BY <1>1, <1>t
  <2> QED  BY <1>2, <2>1, <2>2, StepFrame
<1>4. s = [gov |-> seen[p].gov, econ |-> econ, econTo |-> seen[p].econTo, paid |-> seen[p].paid]
  BY <1>1, <1>s DEF SeenShape
<1>5. econ = ledger[c.from] + draft[p].ledger[c.from] /\ econ \in Int
  BY <1>1, <1>e DEF View, DraftShape
<1>6. SeenShape(s)
  BY <1>1, <1>4, <1>5 DEF SeenShape
<1>7. step \in {"grant", "econTo", "pay"}
  BY <1>t
<1>8. CallShape(p)'
  <2>1. at[p] \notin Before /\ step \notin Before /\ c.op # "ensure" /\ s.gov = seen[p].gov
        /\ ~s.paid
    BY <1>1, <1>4, <1>7 DEF Before
  <2> QED  BY <1>1, <1>3, <1>6, <1>7, <2>1 DEF CallShape
<1>9. ASSUME p \notin overlapped, NEW d \in Departments, d \in Touches(c), d \in clean
      PROVE  Follows(p, d)'
  <2>1. Follows(p, d)
    BY <1>1, <1>9, Unchanged
  <2>2. gov[d] = ledger[d]
    BY <1>1, <2>1 DEF Follows
  <2>3. CASE c.op \in {"welfare", "touser"}
    BY <1>3, <1>7, <2>2, <2>3 DEF Follows, FollowsWelfare
  <2>4. CASE c.op = "between"
    <3>1. FollowsBetween(p, d)
      BY <2>1, <2>4 DEF Follows
    <3>2. draft[p].ledger[d] = 0 /\ seen[p].gov[d] = gov[d]
      BY <1>1, <3>1 DEF FollowsBetween, Before
    <3>3. d = c.from => econ = ledger[d] /\ step = "econTo"
      <4> SUFFICES ASSUME d = c.from
                   PROVE  econ = ledger[d] /\ step = "econTo"
        OBVIOUS
      <4>1. econ = ledger[d]
        BY <1>1, <1>5, <3>2
      <4>2. seen[p].gov[c.from] = ledger[d]
        BY <2>2, <3>2
      <4>3. ~needs
        BY <1>n, <1>1, <4>1, <4>2
      <4> QED  BY <1>t, <2>4, <4>1, <4>3
    <3>4. s.econ = econ /\ s.gov = seen[p].gov /\ ~s.paid
      BY <1>1, <1>4
    <3>5. FollowsBetween(p, d)'
      BY <1>3, <1>7, <3>2, <3>3, <3>4 DEF FollowsBetween
    <3> QED  BY <1>3, <2>2, <2>4, <3>5 DEF Follows
  <2> QED  BY <2>3, <2>4
<1> QED  BY <1>3, <1>8, <1>9, WorkingKeeps

LEMMA GrantKeeps ==
    ASSUME GInv, NEW p \in Callers, call[p].op \in {"welfare", "touser", "between"}, Grant(p)
    PROVE  GInv'
<1> PICK c : c = call[p]
  OBVIOUS
<1>d. PICK delta : delta = seen[p].gov[c.from] - seen[p].econ
  OBVIOUS
<1>f. PICK after : after = View(p, c.from) + delta
  OBVIOUS
<1>e. PICK econ : econ = IF after < c.amount THEN seen[p].gov[c.from] ELSE after
  OBVIOUS
<1>s. PICK s : s = [seen[p] EXCEPT !.econ = econ]
  OBVIOUS
<1>b. PICK b : b = [draft[p].ledger EXCEPT ![c.from] = @ + delta]
  OBVIOUS
<1>w. PICK w : w = Lock(p, Booked(draft[p], b, 0, delta))
  OBVIOUS
<1>t. PICK step : step = IF c.op = "between" THEN "econTo" ELSE "pay"
  OBVIOUS
<1>1. /\ CallShape(p) /\ at[p] = "grant" /\ c \in Calls /\ SeenShape(seen[p])
      /\ DraftShape(draft[p]) /\ ~seen[p].paid
      /\ c.from \in Departments /\ Departments \subseteq Accounts
      /\ ledger \in [Accounts -> Int] /\ gov \in [Departments -> Int] /\ c.amount \in Nat
      /\ (c.op = "between" => c.from # c.to)
  <2>1. CallShape(p) /\ at[p] = "grant"
    BY Unchanged DEF Grant
  <2>2. c \in Calls
    BY <2>1 DEF CallShape
  <2> QED  BY <2>1, <2>2, CallsAreKnown DEF CallShape, GInv, Shape, Accounts
<1>2. /\ See(p, s) /\ Draft(p, w) /\ Goto(p, step)
      /\ UNCHANGED <<ledger, gov, call, todo, overlapped, clean>>
  BY <1>d, <1>f, <1>e, <1>s, <1>b, <1>w, <1>t DEF Grant, tables, history
<1>3. /\ Working(p) /\ at'[p] = step /\ seen'[p] = s /\ draft'[p] = w
      /\ todo'[p] = todo[p] /\ gov' = gov /\ clean' = clean /\ call'[p] = c
      /\ overlapped' = overlapped /\ ledger' = ledger
  <2>1. Plans(p, todo[p]) /\ ledger' \in [Accounts -> Int]
    BY <1>2, Unchanged
  <2>2. step \notin {"idle", "plan"} /\ at[p] # "idle"
    BY <1>1, <1>t
  <2> QED  BY <1>2, <2>1, <2>2, StepFrame
<1>4. s = [gov |-> seen[p].gov, econ |-> econ, econTo |-> seen[p].econTo, paid |-> seen[p].paid]
  BY <1>1, <1>s DEF SeenShape
<1>5. c.from \in Touches(c) /\ at[p] \notin Before
  BY <1>1, TouchesDepartments DEF Before
<1>6. seen[p].gov[c.from] \in Int /\ seen[p].econ \in Int
  BY <1>1, <1>5 DEF CallShape, SeenShape
<1>7. draft[p].ledger \in [Accounts -> Int] /\ draft[p].moved \in Nat
  BY <1>1 DEF DraftShape
<1>8. delta \in Int /\ econ \in Int
  <2>1. View(p, c.from) \in Int
    BY <1>1, <1>7 DEF View
  <2>2. delta \in Int
    BY <1>d, <1>6
  <2>3. after \in Int
    BY <1>f, <2>1, <2>2
  <2> QED  BY <1>e, <1>6, <2>2, <2>3
<1>9. b \in [Accounts -> Int] /\ \A a \in Accounts \ {c.from} : b[a] = draft[p].ledger[a]
  BY <1>b, <1>1, <1>7, <1>8
<1>10. /\ w = [ledger |-> w.ledger, gov |-> w.gov, moved |-> w.moved,
               adjusted |-> w.adjusted, locks |-> w.locks]
       /\ w.ledger = b /\ w.moved = draft[p].moved /\ w.gov = draft[p].gov
  <2>1. w.moved = draft[p].moved + 0
    BY <1>w, BookedFields
  <2>2. /\ w = [ledger |-> w.ledger, gov |-> w.gov, moved |-> w.moved,
                adjusted |-> w.adjusted, locks |-> w.locks]
        /\ w.ledger = b /\ w.gov = draft[p].gov
    BY <1>w, BookedFields
  <2> QED  BY <1>7, <2>1, <2>2
<1>11. SeenShape(s) /\ DraftShape(w)
  BY <1>1, <1>4, <1>7, <1>8, <1>9, <1>10 DEF SeenShape, DraftShape
<1>12. CallShape(p)'
  <2>1. step \in {"econTo", "pay"} /\ step \notin Before /\ c.op # "ensure"
        /\ s.gov = seen[p].gov /\ ~s.paid
    BY <1>1, <1>4, <1>t DEF Before
  <2>2. \A d \in Departments \ Touches(c) : w.ledger[d] = 0 /\ d \notin DOMAIN w.gov
    <3> SUFFICES ASSUME NEW d \in Departments \ Touches(c)
                 PROVE  w.ledger[d] = 0 /\ d \notin DOMAIN w.gov
      OBVIOUS
    <3>1. draft[p].ledger[d] = 0 /\ d \notin DOMAIN draft[p].gov
      BY <1>1 DEF CallShape
    <3>2. d \in Accounts \ {c.from}
      BY <1>1, <1>5
    <3> QED  BY <1>9, <1>10, <3>1, <3>2
  <2> QED  BY <1>1, <1>3, <1>5, <1>10, <1>11, <2>1, <2>2 DEF CallShape
<1>13. ASSUME p \notin overlapped, NEW d \in Departments, d \in Touches(c), d \in clean
       PROVE  Follows(p, d)'
  <2>1. Follows(p, d)
    BY <1>1, <1>13, Unchanged
  <2>2. gov[d] = ledger[d]
    BY <1>1, <2>1 DEF Follows
  <2>3. CASE c.op \in {"welfare", "touser"}
    BY <1>3, <1>t, <2>2, <2>3 DEF Follows, FollowsWelfare
  <2>4. CASE c.op = "between"
    <3>1. FollowsBetween(p, d)
      BY <2>1, <2>4 DEF Follows
    <3>2. draft[p].ledger[d] = 0 /\ seen[p].gov[d] = gov[d] /\ d # c.from
      BY <1>1, <1>5, <3>1 DEF FollowsBetween
    <3>3. w.ledger[d] = 0 /\ s.gov = seen[p].gov /\ ~s.paid
      BY <1>1, <1>4, <1>9, <1>10, <3>2
    <3>4. FollowsBetween(p, d)'
      BY <1>3, <1>t, <2>4, <3>2, <3>3 DEF FollowsBetween
    <3> QED  BY <1>3, <2>2, <2>4, <3>4 DEF Follows
  <2> QED  BY <2>3, <2>4
<1> QED  BY <1>3, <1>12, <1>13, WorkingKeeps

LEMMA EconToKeeps ==
    ASSUME GInv, NEW p \in Callers, call[p].op = "between", EconTo(p)
    PROVE  GInv'
<1> PICK c : c = call[p]
  OBVIOUS
<1>e. PICK econ : econ = View(p, c.to)
  OBVIOUS
<1>s. PICK s : s = [seen[p] EXCEPT !.econTo = econ]
  OBVIOUS
<1>1. /\ CallShape(p) /\ at[p] = "econTo" /\ c \in Calls /\ SeenShape(seen[p])
      /\ DraftShape(draft[p]) /\ ~seen[p].paid
      /\ c.to \in Departments /\ Departments \subseteq Accounts /\ c.from # c.to
      /\ ledger \in [Accounts -> Int] /\ gov \in [Departments -> Int] /\ c.amount \in Nat
  <2>1. CallShape(p) /\ at[p] = "econTo"
    BY Unchanged DEF EconTo
  <2>2. c \in Calls
    BY <2>1 DEF CallShape
  <2> QED  BY <2>1, <2>2, CallsAreKnown DEF CallShape, GInv, Shape, Accounts
<1>2. /\ See(p, s) /\ Goto(p, "borrow")
      /\ UNCHANGED <<ledger, gov, call, draft, todo, overlapped, clean>>
  BY <1>e, <1>s DEF EconTo, tables, history
<1>3. /\ Working(p) /\ at'[p] = "borrow" /\ seen'[p] = s /\ draft'[p] = draft[p]
      /\ todo'[p] = todo[p] /\ gov' = gov /\ clean' = clean /\ call'[p] = c
      /\ overlapped' = overlapped /\ ledger' = ledger
  <2>1. Draft(p, draft[p]) /\ Plans(p, todo[p]) /\ ledger' \in [Accounts -> Int]
    BY <1>2, Unchanged
  <2>2. "borrow" \notin {"idle", "plan"} /\ at[p] # "idle"
    BY <1>1
  <2> QED  BY <1>2, <2>1, <2>2, StepFrame
<1>4. s = [gov |-> seen[p].gov, econ |-> seen[p].econ, econTo |-> econ, paid |-> seen[p].paid]
  BY <1>s, <1>1 DEF SeenShape
<1>5. econ = ledger[c.to] + draft[p].ledger[c.to] /\ econ \in Int
  BY <1>1, <1>e DEF View, DraftShape
<1>6. SeenShape(s)
  BY <1>1, <1>4, <1>5 DEF SeenShape
<1>7. CallShape(p)'
  <2>1. at[p] \notin Before /\ "borrow" \notin Before /\ s.gov = seen[p].gov /\ ~s.paid
    BY <1>1, <1>4 DEF Before
  <2> QED  BY <1>1, <1>3, <1>6, <2>1 DEF CallShape
<1>8. ASSUME p \notin overlapped, NEW d \in Departments, d \in Touches(c), d \in clean
      PROVE  Follows(p, d)'
  <2>1. Follows(p, d)
    BY <1>1, <1>8, Unchanged
  <2>2. gov[d] = ledger[d]
    BY <1>1, <2>1 DEF Follows
  <2>3. FollowsBetween(p, d)
    BY <2>1 DEF Follows
  <2>4. draft[p].ledger[d] = 0 /\ seen[p].gov[d] = gov[d] /\ (d = c.from => seen[p].econ = ledger[d])
    BY <1>1, <2>3 DEF FollowsBetween, Before
  <2>5. d = c.to => econ = ledger[d]
    BY <1>1, <1>5, <2>4
  <2>6. s.econ = seen[p].econ /\ s.econTo = econ /\ s.gov = seen[p].gov /\ ~s.paid
    BY <1>1, <1>4
  <2>7. FollowsBetween(p, d)'
    BY <1>3, <2>4, <2>5, <2>6 DEF FollowsBetween
  <2> QED  BY <1>3, <2>2, <2>6, <2>7 DEF Follows
<1> QED  BY <1>3, <1>7, <1>8, WorkingKeeps

LEMMA BorrowKeeps ==
    ASSUME GInv, NEW p \in Callers, call[p].op \in {"between", "tax"}, Borrow(p)
    PROVE  GInv'
<1>1. CallShape(p) /\ at[p] = "borrow" /\ ~seen[p].paid
  BY Unchanged DEF Borrow, CallShape
<1>2. /\ Goto(p, "payout")
      /\ UNCHANGED <<ledger, gov, call, seen, draft, todo, overlapped, clean>>
  BY DEF Borrow, tables, private, history
<1>3. /\ Working(p) /\ at'[p] = "payout" /\ seen'[p] = seen[p] /\ draft'[p] = draft[p]
      /\ todo'[p] = todo[p] /\ gov' = gov /\ clean' = clean /\ call'[p] = call[p]
      /\ overlapped' = overlapped /\ ledger' = ledger
  <2>1. /\ See(p, seen[p]) /\ Draft(p, draft[p]) /\ Plans(p, todo[p])
        /\ ledger' \in [Accounts -> Int]
    BY <1>2, Unchanged
  <2>2. "payout" \notin {"idle", "plan"} /\ at[p] # "idle"
    BY <1>1
  <2> QED  BY <1>2, <2>1, <2>2, StepFrame
<1>4. CallShape(p)'
  BY <1>1, <1>3 DEF CallShape, Before
<1>5. ASSUME p \notin overlapped, NEW d \in Departments, d \in Touches(call[p]), d \in clean
      PROVE  Follows(p, d)'
  <2>1. Follows(p, d)
    BY <1>1, <1>5, Unchanged
  <2>2. CASE call[p].op = "tax"
    BY <1>1, <1>3, <2>1, <2>2 DEF Follows, FollowsTax, Before
  <2>3. CASE call[p].op = "between"
    BY <1>1, <1>3, <2>1, <2>3 DEF Follows, FollowsBetween, Before
  <2> QED  BY <2>2, <2>3
<1> QED  BY <1>3, <1>4, <1>5, WorkingKeeps

LEMMA PayOutKeeps ==
    ASSUME GInv, NEW p \in Callers, call[p].op \in {"between", "tax"}, PayOut(p)
    PROVE  GInv'
<1> PICK c : c = call[p]
  OBVIOUS
<1> PICK step : step = IF c.op = "tax" THEN "govTo" ELSE "govFrom"
  OBVIOUS
<1>1. /\ CallShape(p) /\ at[p] = "payout" /\ c \in Calls /\ SeenShape(seen[p])
      /\ DraftShape(draft[p]) /\ ~seen[p].paid
      /\ c.from \in Accounts /\ c.to \in Departments /\ c.from # c.to
      /\ (c.op = "tax" => c.from \notin Departments)
      /\ Departments \subseteq Accounts
      /\ ledger \in [Accounts -> Int] /\ gov \in [Departments -> Int] /\ c.amount \in Nat
  <2>1. CallShape(p) /\ at[p] = "payout"
    BY Unchanged DEF PayOut
  <2>2. c \in Calls
    BY <2>1 DEF CallShape
  <2> QED  BY <2>1, <2>2, CallsAreKnown DEF CallShape, GInv, Shape, Accounts
<1>2. /\ Goto(p, step)
      /\ UNCHANGED <<gov, call, draft, todo, overlapped, clean>>
  BY DEF PayOut, AfterPayOut, history
<1>3. step \in {"govFrom", "govTo"} /\ at[p] \notin Before /\ step \notin Before
  BY <1>1 DEF Before
<1>4. CASE /\ ledger[c.from] >= c.amount
           /\ ledger' = Moved(ledger, c.from, c.to, c.amount)
           /\ See(p, [seen[p] EXCEPT !.paid = TRUE])
  <2>s. PICK s : s = [seen[p] EXCEPT !.paid = TRUE]
    OBVIOUS
  <2>1. s = [gov |-> seen[p].gov, econ |-> seen[p].econ, econTo |-> seen[p].econTo, paid |-> TRUE]
    BY <2>s, <1>1 DEF SeenShape
  <2>2. See(p, s)
    BY <2>s, <1>4
  <2>3. /\ ledger' \in [Accounts -> Int]
        /\ ledger'[c.to] = ledger[c.to] + c.amount
        /\ ledger'[c.from] = ledger[c.from] - c.amount
        /\ \A a \in Accounts : a # c.from /\ a # c.to => ledger'[a] = ledger[a]
    BY <1>1, <1>4 DEF Moved
  <2>4. \A d \in Departments : d \notin Touches(c) => ledger'[d] = ledger[d]
    BY <1>1, <2>3, TouchesDepartments
  <2>5. /\ Working(p) /\ at'[p] = step /\ seen'[p] = s /\ draft'[p] = draft[p]
        /\ todo'[p] = todo[p] /\ gov' = gov /\ clean' = clean /\ call'[p] = c
        /\ overlapped' = overlapped
    <3>1. Draft(p, draft[p]) /\ Plans(p, todo[p])
      BY <1>2, Unchanged
    <3>2. step \notin {"idle", "plan"} /\ at[p] # "idle"
      BY <1>1
    <3> QED  BY <1>2, <2>2, <2>3, <2>4, <3>1, <3>2, StepFrame
  <2>6. SeenShape(s) /\ s.paid
    BY <1>1, <2>1 DEF SeenShape
  <2>7. CallShape(p)'
    <3>1. s.gov = seen[p].gov
      BY <2>1
    <3> QED  BY <1>1, <1>3, <2>5, <2>6, <3>1 DEF CallShape
  <2>8. ASSUME p \notin overlapped, NEW d \in Departments, d \in Touches(c), d \in clean
        PROVE  Follows(p, d)'
    <3>1. Follows(p, d)
      BY <1>1, <2>8, Unchanged
    <3>2. gov[d] = ledger[d] /\ ledger[d] \in Int
      BY <1>1, <3>1 DEF Follows
    <3>3. d = c.from \/ d = c.to
      BY <2>8, TouchesDepartments
    <3>4. CASE c.op = "tax"
      <4>1. FollowsTax(p, d)
        BY <3>1, <3>4 DEF Follows
      <4>2. draft[p].ledger[d] = 0 /\ s.gov[d] = gov[d] /\ ledger'[d] = gov[d] + c.amount
        BY <1>1, <1>3, <2>1, <2>3, <3>2, <3>3, <3>4, <4>1 DEF FollowsTax
      <4>3. FollowsTax(p, d)'
        BY <2>5, <2>6, <3>4, <4>2 DEF FollowsTax
      <4> QED  BY <2>5, <2>6, <3>4, <4>3 DEF Follows
    <3>5. CASE c.op = "between"
      <4>1. FollowsBetween(p, d)
        BY <3>1, <3>5 DEF Follows
      <4>2. /\ draft[p].ledger[d] = 0 /\ s.gov[d] = gov[d]
            /\ d = c.from => s.econ = ledger[d] /\ ledger'[d] = ledger[d] - c.amount
            /\ d = c.to => s.econTo = ledger[d] /\ ledger'[d] = ledger[d] + c.amount
        BY <1>1, <1>3, <2>1, <2>3, <3>2, <4>1 DEF FollowsBetween
      <4>3. FollowsBetween(p, d)'
        BY <1>1, <1>4, <2>5, <2>6, <3>5, <4>2 DEF FollowsBetween
      <4> QED  BY <2>5, <2>6, <3>5, <4>3 DEF Follows
    <3> QED  BY <3>4, <3>5
  <2> QED  BY <2>5, <2>7, <2>8, WorkingKeeps
<1>5. CASE UNCHANGED <<ledger, seen>>
  <2>1. /\ Working(p) /\ at'[p] = step /\ seen'[p] = seen[p] /\ draft'[p] = draft[p]
        /\ todo'[p] = todo[p] /\ gov' = gov /\ clean' = clean /\ call'[p] = c
        /\ overlapped' = overlapped /\ ledger' = ledger
    <3>1. /\ See(p, seen[p]) /\ Draft(p, draft[p]) /\ Plans(p, todo[p])
          /\ ledger' \in [Accounts -> Int]
      BY <1>2, <1>5, Unchanged
    <3>2. step \notin {"idle", "plan"} /\ at[p] # "idle"
      BY <1>1
    <3> QED  BY <1>2, <1>5, <3>1, <3>2, StepFrame
  <2>2. CallShape(p)'
    BY <1>1, <1>3, <2>1 DEF CallShape
  <2>3. ASSUME p \notin overlapped, NEW d \in Departments, d \in Touches(c), d \in clean
        PROVE  Follows(p, d)'
    <3>1. Follows(p, d)
      BY <1>1, <2>3, Unchanged
    <3>2. CASE c.op = "tax"
      BY <1>1, <1>3, <2>1, <3>1, <3>2 DEF Follows, FollowsTax
    <3>3. CASE c.op = "between"
      BY <1>1, <1>3, <2>1, <3>1, <3>3 DEF Follows, FollowsBetween
    <3> QED  BY <3>2, <3>3
  <2> QED  BY <2>1, <2>2, <2>3, WorkingKeeps
<1> QED  BY <1>4, <1>5 DEF PayOut

\* The ledger of a draft after a payment.
LEMMA MovedLedger ==
    ASSUME NEW b \in [Accounts -> Int], NEW from, NEW to, NEW n \in Int
    PROVE  /\ Moved(b, from, to, n) \in [Accounts -> Int]
           /\ \A a \in Accounts : a # from /\ a # to => Moved(b, from, to, n)[a] = b[a]
BY DEF Moved

LEMMA PayKeeps ==
    ASSUME GInv, NEW p \in Callers, call[p].op \in {"welfare", "touser", "auto"}, Pay(p)
    PROVE  GInv'
<1> PICK c : c = call[p]
  OBVIOUS
<1> PICK payer : payer = Payer(p)
  OBVIOUS
<1> PICK share : share = Share(p)
  OBVIOUS
<1> PICK b : b = Moved(draft[p].ledger, payer, c.to, share)
  OBVIOUS
<1>w. PICK w : w = Lock(p, Booked(draft[p], b, share, 0))
  OBVIOUS
<1>1. /\ CallShape(p) /\ at[p] = "pay" /\ c \in Calls /\ DraftShape(draft[p]) /\ ~seen[p].paid
      /\ Departments \subseteq Accounts /\ payer # c.to /\ share \in Nat /\ share > 0
      /\ (c.op # "auto" => payer = c.from /\ c.to \notin Departments)
  <2>1. CallShape(p) /\ at[p] = "pay" /\ payer # c.to /\ share \in Nat \ {0}
    BY Unchanged DEF Pay, AtPay, Affordable
  <2>2. c \in Calls
    BY <2>1 DEF CallShape
  <2> QED  BY <2>1, <2>2, CallsAreKnown DEF CallShape, Accounts, Payer
<1>2. /\ Draft(p, w) /\ Goto(p, "govFrom")
      /\ UNCHANGED <<ledger, gov, call, seen, todo, overlapped, clean>>
  BY <1>w DEF Pay, tables, history
<1>3. /\ Working(p) /\ at'[p] = "govFrom" /\ seen'[p] = seen[p] /\ draft'[p] = w
      /\ todo'[p] = todo[p] /\ gov' = gov /\ clean' = clean /\ call'[p] = c
      /\ overlapped' = overlapped /\ ledger' = ledger
  <2>1. See(p, seen[p]) /\ Plans(p, todo[p]) /\ ledger' \in [Accounts -> Int]
    BY <1>2, Unchanged
  <2>2. "govFrom" \notin {"idle", "plan"} /\ at[p] # "idle"
    BY <1>1
  <2> QED  BY <1>2, <2>1, <2>2, StepFrame
<1>4. draft[p].ledger \in [Accounts -> Int] /\ draft[p].moved \in Nat
  BY <1>1 DEF DraftShape
<1>5. /\ b \in [Accounts -> Int]
      /\ \A a \in Accounts : a # payer /\ a # c.to => b[a] = draft[p].ledger[a]
  BY <1>1, <1>4, MovedLedger
<1>6. /\ w = [ledger |-> w.ledger, gov |-> w.gov, moved |-> w.moved,
              adjusted |-> w.adjusted, locks |-> w.locks]
      /\ w.ledger = b /\ w.moved = draft[p].moved + share /\ w.gov = draft[p].gov
  BY <1>w, BookedFields
<1>7. DraftShape(w) /\ w.moved > 0
  BY <1>1, <1>4, <1>5, <1>6 DEF DraftShape
<1>8. CallShape(p)'
  <2>1. \A d \in Departments \ Touches(c) : w.ledger[d] = 0 /\ d \notin DOMAIN w.gov
    <3> SUFFICES ASSUME NEW d \in Departments \ Touches(c)
                 PROVE  w.ledger[d] = 0 /\ d \notin DOMAIN w.gov
      OBVIOUS
    <3>1. draft[p].ledger[d] = 0 /\ d \notin DOMAIN draft[p].gov
      BY <1>1 DEF CallShape
    <3>2. c.op # "auto" /\ d # c.from /\ d # c.to
      BY TouchesDepartments
    <3> QED  BY <1>1, <1>5, <1>6, <3>1, <3>2
  <2>2. at[p] \notin Before /\ "govFrom" \notin Before
    BY <1>1 DEF Before
  <2> QED  BY <1>1, <1>3, <1>7, <2>1, <2>2 DEF CallShape
<1>9. ASSUME p \notin overlapped, NEW d \in Departments, d \in Touches(c), d \in clean
      PROVE  Follows(p, d)'
  <2>1. Follows(p, d)
    BY <1>1, <1>9, Unchanged
  <2>2. gov[d] = ledger[d]
    BY <1>1, <2>1 DEF Follows
  <2>3. CASE c.op \in {"welfare", "touser"}
    BY <1>3, <1>7, <2>2, <2>3 DEF Follows, FollowsWelfare
  <2>4. CASE c.op = "auto"
    <3>1. FollowsDeduction(p, d)
      BY <2>1, <2>4 DEF Follows
    <3>2. d # c.to => Drafted(p, d)
      BY <1>1, <3>1 DEF FollowsDeduction
    <3>3. d # c.to /\ d # payer => Drafted(p, d)'
      BY <1>1, <1>3, <1>5, <1>6, <3>2 DEF Drafted
    <3>4. Payer(p)' = payer
      BY <1>3, <2>4 DEF Payer
    <3>5. FollowsDeduction(p, d)'
      BY <1>3, <1>7, <3>3, <3>4 DEF FollowsDeduction
    <3> QED  BY <1>3, <2>2, <2>4, <3>5 DEF Follows
  <2> QED  BY <2>3, <2>4
<1> QED  BY <1>3, <1>8, <1>9, WorkingKeeps

\* A transfer to a member that goes on as if it had been paid.
LEMMA AssumedKeeps ==
    ASSUME GInv, NEW p \in Callers, call[p].op = "touser", at[p] = "pay", Goto(p, "govFrom"),
           UNCHANGED <<ledger, gov, call, seen, draft, todo, overlapped, clean>>
    PROVE  GInv'
<1>1. CallShape(p) /\ ~seen[p].paid
  BY Unchanged DEF CallShape
<1>2. /\ Working(p) /\ at'[p] = "govFrom" /\ seen'[p] = seen[p] /\ draft'[p] = draft[p]
      /\ todo'[p] = todo[p] /\ gov' = gov /\ clean' = clean /\ call'[p] = call[p]
      /\ overlapped' = overlapped /\ ledger' = ledger
  <2>1. /\ See(p, seen[p]) /\ Draft(p, draft[p]) /\ Plans(p, todo[p])
        /\ ledger' \in [Accounts -> Int]
    BY Unchanged
  <2> QED  BY <2>1, StepFrame
<1>3. CallShape(p)'
  BY <1>1, <1>2 DEF CallShape, Before
<1>4. ASSUME p \notin overlapped, NEW d \in Departments, d \in Touches(call[p]), d \in clean
      PROVE  Follows(p, d)'
  <2>1. Follows(p, d)
    BY <1>1, <1>4, Unchanged
  <2> QED  BY <1>1, <1>2, <2>1 DEF Follows, FollowsWelfare
<1> QED  BY <1>2, <1>3, <1>4, WorkingKeeps

\* A deduction that goes on with the next department.
LEMMA SkipKeeps ==
    ASSUME GInv, NEW p \in Callers, call[p].op = "auto", at[p] = "pay", NextDepartment(p, "pay"),
           UNCHANGED <<ledger, gov, call, seen, draft, overlapped, clean>>
    PROVE  GInv'
<1> PICK l : l = Tail(todo[p])
  OBVIOUS
<1> PICK step : step = IF l = <<>> THEN "commit" ELSE "pay"
  OBVIOUS
<1>1. CallShape(p) /\ ~seen[p].paid
  BY Unchanged DEF CallShape
<1>2. Goto(p, step) /\ Plans(p, l) /\ step \in {"commit", "pay"}
  BY DEF NextDepartment, Plans
<1>3. /\ Working(p) /\ at'[p] = step /\ seen'[p] = seen[p] /\ draft'[p] = draft[p]
      /\ gov' = gov /\ clean' = clean /\ call'[p] = call[p]
      /\ overlapped' = overlapped /\ ledger' = ledger
  <2>1. /\ See(p, seen[p]) /\ Draft(p, draft[p]) /\ ledger' \in [Accounts -> Int]
    BY Unchanged
  <2>2. step \notin {"idle", "plan"}
    BY <1>2
  <2> QED  BY <1>2, <2>1, <2>2, StepFrame
<1>4. CallShape(p)'
  BY <1>1, <1>2, <1>3 DEF CallShape, Before
<1>5. ASSUME p \notin overlapped, NEW d \in Departments, d \in Touches(call[p]), d \in clean
      PROVE  Follows(p, d)'
  <2>1. Follows(p, d)
    BY <1>1, <1>5, Unchanged
  <2>2. FollowsDeduction(p, d)
    BY <2>1 DEF Follows
  <2>3. FollowsDeduction(p, d)'
    BY <1>2, <1>3, <2>2 DEF FollowsDeduction, Drafted
  <2> QED  BY <1>3, <2>1, <2>3 DEF Follows
<1> QED  BY <1>3, <1>4, <1>5, WorkingKeeps

LEMMA MintKeeps ==
    ASSUME GInv, NEW p \in Callers, call[p].op = "issue", Mint(p)
    PROVE  GInv'
<1> PICK c : c = call[p]
  OBVIOUS
<1>b. PICK b : b = [draft[p].ledger EXCEPT ![Bank] = @ + c.amount]
  OBVIOUS
<1>w. PICK w : w = Lock(p, Booked(draft[p], b, c.amount, 0))
  OBVIOUS
<1>1. /\ CallShape(p) /\ at[p] = "mint" /\ c \in Calls /\ DraftShape(draft[p]) /\ ~seen[p].paid
      /\ Departments \subseteq Accounts /\ c.amount \in Nat /\ c.to = Bank /\ Bank \in Departments
  <2>1. CallShape(p) /\ at[p] = "mint"
    BY Unchanged DEF Mint
  <2>2. c \in Calls
    BY <2>1 DEF CallShape
  <2> QED  BY <2>1, <2>2, CallsAreKnown, AccountsAssumption DEF CallShape, Accounts
<1>2. /\ Draft(p, w) /\ Goto(p, "govTo")
      /\ UNCHANGED <<ledger, gov, call, seen, todo, overlapped, clean>>
  BY <1>b, <1>w DEF Mint, tables, history
<1>3. /\ Working(p) /\ at'[p] = "govTo" /\ seen'[p] = seen[p] /\ draft'[p] = w
      /\ todo'[p] = todo[p] /\ gov' = gov /\ clean' = clean /\ call'[p] = c
      /\ overlapped' = overlapped /\ ledger' = ledger
  <2>1. See(p, seen[p]) /\ Plans(p, todo[p]) /\ ledger' \in [Accounts -> Int]
    BY <1>2, Unchanged
  <2>2. "govTo" \notin {"idle", "plan"} /\ at[p] # "idle"
    BY <1>1
  <2> QED  BY <1>2, <2>1, <2>2, StepFrame
<1>4. draft[p].ledger \in [Accounts -> Int] /\ draft[p].moved \in Nat
  BY <1>1 DEF DraftShape
<1>5. /\ b \in [Accounts -> Int] /\ b[Bank] = draft[p].ledger[Bank] + c.amount
      /\ \A a \in Accounts : a # Bank => b[a] = draft[p].ledger[a]
  BY <1>b, <1>1, <1>4
<1>6. /\ w = [ledger |-> w.ledger, gov |-> w.gov, moved |-> w.moved,
              adjusted |-> w.adjusted, locks |-> w.locks]
      /\ w.ledger = b /\ w.moved = draft[p].moved + c.amount /\ w.gov = draft[p].gov
  BY <1>w, BookedFields
<1>7. DraftShape(w)
  BY <1>1, <1>4, <1>5, <1>6 DEF DraftShape
<1>8. CallShape(p)'
  <2>1. \A d \in Departments \ Touches(c) : w.ledger[d] = 0 /\ d \notin DOMAIN w.gov
    <3> SUFFICES ASSUME NEW d \in Departments \ Touches(c)
                 PROVE  w.ledger[d] = 0 /\ d \notin DOMAIN w.gov
      OBVIOUS
    <3>1. draft[p].ledger[d] = 0 /\ d \notin DOMAIN draft[p].gov
      BY <1>1 DEF CallShape
    <3>2. d # Bank
      BY <1>1, TouchesDepartments
    <3> QED  BY <1>1, <1>5, <1>6, <3>1, <3>2
  <2>2. at[p] \notin Before /\ "govTo" \notin Before
    BY <1>1 DEF Before
  <2> QED  BY <1>1, <1>3, <1>7, <2>1, <2>2 DEF CallShape
<1>9. ASSUME p \notin overlapped, NEW d \in Departments, d \in Touches(c), d \in clean
      PROVE  Follows(p, d)'
  <2>1. Follows(p, d)
    BY <1>1, <1>9, Unchanged
  <2>2. gov[d] = ledger[d] /\ FollowsIssue(p, d)
    BY <1>1, <2>1 DEF Follows
  <2>3. d \notin DOMAIN draft[p].gov /\ draft[p].ledger[d] = 0 /\ seen[p].gov[d] = gov[d]
    BY <1>1, <2>2 DEF FollowsIssue
  <2>4. d \notin DOMAIN w.gov /\ w.ledger[d] = IF d = Bank THEN c.amount ELSE 0
    BY <1>1, <1>5, <1>6, <2>3
  <2>5. FollowsIssue(p, d)'
    BY <1>3, <2>3, <2>4 DEF FollowsIssue
  <2> QED  BY <1>3, <2>2, <2>5 DEF Follows
<1> QED  BY <1>3, <1>8, <1>9, WorkingKeeps

LEMMA GovFromKeeps ==
    ASSUME GInv, NEW p \in Callers,
           call[p].op \in {"welfare", "touser", "between", "auto"}, GovFrom(p)
    PROVE  GInv'
<1> PICK c : c = call[p]
  OBVIOUS
<1> PICK dept : dept = Payer(p)
  OBVIOUS
<1> PICK left : left = IF seen[p].econ > c.amount THEN seen[p].econ - c.amount ELSE 0
  OBVIOUS
<1> PICK balance : balance = IF draft[p].moved > 0 THEN View(p, dept) ELSE left
  OBVIOUS
<1>w. PICK w : w = Lock(p, SetGov(draft[p], dept, balance))
  OBVIOUS
<1> PICK l : l = IF c.op = "auto" THEN Tail(todo[p]) ELSE todo[p]
  OBVIOUS
<1> PICK step : step = IF c.op = "auto" THEN (IF Tail(todo[p]) = <<>> THEN "commit" ELSE "pay")
                       ELSE IF c.op = "between" THEN "govTo" ELSE "commit"
  OBVIOUS
<1>1. /\ CallShape(p) /\ at[p] = "govFrom" /\ c \in Calls /\ SeenShape(seen[p])
      /\ DraftShape(draft[p]) /\ Departments \subseteq Accounts /\ c.amount \in Nat
      /\ ledger \in [Accounts -> Int]
      /\ (c.op # "auto" => dept = c.from /\ dept \in Departments)
      /\ (c.op \in {"welfare", "touser"} => c.to \notin Departments)
      /\ (c.op = "between" => c.from # c.to)
  <2>1. CallShape(p) /\ at[p] = "govFrom"
    BY Unchanged DEF GovFrom
  <2>2. c \in Calls
    BY <2>1 DEF CallShape
  <2>3. c.op # "auto" => dept = c.from
    BY DEF Payer
  <2> QED  BY <2>1, <2>2, <2>3, CallsAreKnown DEF CallShape, Accounts, GInv, Shape
<1>2. /\ Draft(p, w) /\ Goto(p, step) /\ Plans(p, l)
      /\ UNCHANGED <<ledger, gov, call, seen, overlapped, clean>>
  <2>1. /\ Draft(p, w) /\ UNCHANGED <<ledger, gov, call, seen, overlapped, clean>>
    BY <1>w DEF GovFrom, tables, history
  <2>2. CASE c.op = "auto"
    <3>1. NextDepartment(p, "pay")
      BY <2>2 DEF GovFrom
    <3> QED  BY <2>1, <2>2, <3>1 DEF NextDepartment, Plans
  <2>3. CASE c.op # "auto"
    <3>1. Goto(p, IF c.op = "between" THEN "govTo" ELSE "commit") /\ todo' = todo
      BY <2>3 DEF GovFrom
    <3> QED  BY <2>1, <2>3, <3>1, Unchanged
  <2> QED  BY <2>2, <2>3
<1>3. step \in {"commit", "pay", "govTo"}
  OBVIOUS
<1>4. /\ Working(p) /\ at'[p] = step /\ seen'[p] = seen[p] /\ draft'[p] = w
      /\ gov' = gov /\ clean' = clean /\ call'[p] = c
      /\ overlapped' = overlapped /\ ledger' = ledger
  <2>1. See(p, seen[p]) /\ ledger' \in [Accounts -> Int]
    BY <1>2, Unchanged
  <2>2. step \notin {"idle", "plan"} /\ at[p] # "idle"
    BY <1>1, <1>3
  <2> QED  BY <1>2, <2>1, <2>2, StepFrame
<1>5. draft[p].ledger \in [Accounts -> Int] /\ draft[p].moved \in Nat
  BY <1>1 DEF DraftShape
<1>6. dept \in Departments => balance \in Int
  <2>1. left \in Int
    BY <1>1 DEF SeenShape
  <2>2. dept \in Departments => View(p, dept) \in Int
    BY <1>1, <1>5 DEF View
  <2> QED  BY <2>1, <2>2
<1>7. /\ w = [ledger |-> w.ledger, gov |-> w.gov, moved |-> w.moved,
              adjusted |-> w.adjusted, locks |-> w.locks]
      /\ w.ledger = draft[p].ledger /\ w.moved = draft[p].moved
      /\ DOMAIN w.gov = DOMAIN draft[p].gov \cup {dept}
      /\ \A d \in DOMAIN w.gov : w.gov[d] = IF d = dept THEN balance ELSE draft[p].gov[d]
  BY <1>w, <1>1, SetGovFields, SMTT(30)
<1>8. DraftShape(w)
  <2>1. ASSUME NEW d \in Departments, d \in DOMAIN w.gov PROVE w.gov[d] \in Int
    <3>1. CASE d = dept
      BY <1>6, <1>7, <2>1, <3>1
    <3>2. CASE d # dept
      BY <1>1, <1>7, <2>1, <3>2 DEF DraftShape
    <3> QED  BY <3>1, <3>2
  <2> QED  BY <1>5, <1>7, <2>1 DEF DraftShape
<1>9. CallShape(p)'
  <2>1. \A d \in Departments \ Touches(c) : w.ledger[d] = 0 /\ d \notin DOMAIN w.gov
    <3> SUFFICES ASSUME NEW d \in Departments \ Touches(c)
                 PROVE  w.ledger[d] = 0 /\ d \notin DOMAIN w.gov
      OBVIOUS
    <3>1. draft[p].ledger[d] = 0 /\ d \notin DOMAIN draft[p].gov
      BY <1>1 DEF CallShape
    <3>2. c.op # "auto" /\ d # c.from
      BY TouchesDepartments
    <3> QED  BY <1>1, <1>7, <3>1, <3>2
  <2>2. at[p] \notin Before /\ step \notin Before
    BY <1>1, <1>3 DEF Before
  <2>3. seen[p].paid => c.op \in {"between", "tax"} /\ step \in {"govFrom", "govTo", "commit"}
    BY <1>1 DEF CallShape
  <2> QED  BY <1>1, <1>3, <1>4, <1>7, <1>8, <2>1, <2>2, <2>3 DEF CallShape
<1>10. ASSUME p \notin overlapped, NEW d \in Departments, d \in Touches(c), d \in clean
       PROVE  Follows(p, d)'
  <2>1. Follows(p, d)
    BY <1>1, <1>10, Unchanged
  <2>2. ~seen[p].paid => gov[d] = ledger[d]
    BY <2>1 DEF Follows
  <2>3. CASE c.op \in {"welfare", "touser"}
    <3>1. FollowsWelfare(p, d) /\ d = dept
      BY <1>1, <1>10, <2>1, <2>3, TouchesDepartments DEF Follows
    <3>2. draft[p].moved > 0 => d \in DOMAIN w.gov /\ w.gov[d] = ledger[d] + draft[p].ledger[d]
      BY <1>7, <3>1 DEF View
    <3>3. FollowsWelfare(p, d)'
      BY <1>1, <1>4, <1>7, <3>1, <3>2 DEF FollowsWelfare, Drafted
    <3> QED  BY <1>4, <2>2, <2>3, <3>3 DEF Follows
  <2>4. CASE c.op = "between"
    <3>1. FollowsBetween(p, d)
      BY <2>1, <2>4 DEF Follows
    <3>2. draft[p].moved = 0 /\ balance = left
      BY <1>1, <1>5, <2>4 DEF CallShape
    <3>3. d = c.from /\ seen[p].paid => d \in DOMAIN w.gov /\ w.gov[d] = ledger[d]
      <4> SUFFICES ASSUME d = c.from, seen[p].paid
                   PROVE  d \in DOMAIN w.gov /\ w.gov[d] = ledger[d]
        OBVIOUS
      <4>1. ledger[d] = seen[p].econ - c.amount /\ seen[p].econ >= c.amount
        BY <1>1, <3>1 DEF FollowsBetween
      <4>2. seen[p].econ \in Int
        BY <1>1 DEF SeenShape
      <4>3. left = ledger[d]
        BY <1>1, <4>1, <4>2
      <4> QED  BY <1>1, <1>7, <2>4, <3>2, <4>3
    <3>4. at[p] \notin Before
      BY <1>1 DEF Before
    <3>5. step = "govTo"
      BY <2>4
    <3>6. FollowsBetween(p, d)'
      BY <1>4, <1>7, <3>1, <3>3, <3>4, <3>5 DEF FollowsBetween
    <3> QED  BY <1>4, <2>2, <2>4, <3>6 DEF Follows
  <2>5. CASE c.op = "auto"
    <3>1. FollowsDeduction(p, d)
      BY <2>1, <2>5 DEF Follows
    <3>2. draft[p].moved > 0 /\ balance = ledger[dept] + draft[p].ledger[dept]
      BY <1>1, <3>1 DEF FollowsDeduction, View
    <3>3. d # c.to => Drafted(p, d)'
      <4>1. CASE d = dept
        BY <1>4, <1>7, <3>2, <4>1 DEF Drafted
      <4>2. CASE d # dept
        <5>1. d # c.to => Drafted(p, d)
          BY <3>1, <4>2 DEF FollowsDeduction
        <5> QED  BY <1>4, <1>7, <4>2, <5>1 DEF Drafted
      <4> QED  BY <4>1, <4>2
    <3>4. FollowsDeduction(p, d)'
      BY <1>3, <1>4, <1>7, <2>5, <3>2, <3>3 DEF FollowsDeduction
    <3> QED  BY <1>4, <2>2, <2>5, <3>4 DEF Follows
  <2> QED  BY <2>3, <2>4, <2>5
<1> QED  BY <1>4, <1>9, <1>10, WorkingKeeps

LEMMA GovToKeeps ==
    ASSUME GInv, NEW p \in Callers, call[p].op \in {"tax", "issue", "between"}, GovTo(p)
    PROVE  GInv'
<1> PICK c : c = call[p]
  OBVIOUS
<1> PICK base : base = IF c.op = "between" THEN seen[p].econTo ELSE seen[p].gov[c.to]
  OBVIOUS
<1>n. PICK n : n = base + c.amount
  OBVIOUS
<1>d. PICK dept : dept = c.to
  OBVIOUS
<1>w. PICK w : w = Lock(p, SetGov(draft[p], dept, n))
  OBVIOUS
<1>1. /\ CallShape(p) /\ at[p] = "govTo" /\ c \in Calls /\ SeenShape(seen[p])
      /\ DraftShape(draft[p]) /\ Departments \subseteq Accounts /\ c.amount \in Nat
      /\ c.to \in Departments /\ ledger \in [Accounts -> Int]
      /\ (c.op = "tax" => c.from \notin Departments)
      /\ (c.op = "between" => c.from # c.to)
      /\ (c.op = "issue" => c.to = Bank)
  <2>1. CallShape(p) /\ at[p] = "govTo"
    BY Unchanged DEF GovTo
  <2>2. c \in Calls
    BY <2>1 DEF CallShape
  <2> QED  BY <2>1, <2>2, CallsAreKnown, AccountsAssumption DEF CallShape, Accounts, GInv, Shape
<1>2. /\ Draft(p, w) /\ Goto(p, "commit")
      /\ UNCHANGED <<ledger, gov, call, seen, todo, overlapped, clean>>
  BY <1>d, <1>n, <1>w DEF GovTo, tables, history
<1>3. /\ Working(p) /\ at'[p] = "commit" /\ seen'[p] = seen[p] /\ draft'[p] = w
      /\ gov' = gov /\ clean' = clean /\ call'[p] = c
      /\ overlapped' = overlapped /\ ledger' = ledger
  <2>1. See(p, seen[p]) /\ Plans(p, todo[p]) /\ ledger' \in [Accounts -> Int]
    BY <1>2, Unchanged
  <2>2. "commit" \notin {"idle", "plan"} /\ at[p] # "idle"
    BY <1>1
  <2> QED  BY <1>2, <2>1, <2>2, StepFrame
<1>4. draft[p].ledger \in [Accounts -> Int] /\ draft[p].moved \in Nat
  BY <1>1 DEF DraftShape
<1>5. c.to \in Touches(c) /\ at[p] \notin Before /\ "commit" \notin Before
  BY <1>1, TouchesDepartments DEF Before
<1>6. n \in Int
  <2>1. seen[p].gov[c.to] \in Int /\ seen[p].econTo \in Int
    BY <1>1, <1>5 DEF CallShape, SeenShape
  <2> QED  BY <1>1, <1>n, <2>1
<1>7. /\ w = [ledger |-> w.ledger, gov |-> w.gov, moved |-> w.moved,
              adjusted |-> w.adjusted, locks |-> w.locks]
      /\ w.ledger = draft[p].ledger /\ w.moved = draft[p].moved
      /\ DOMAIN w.gov = DOMAIN draft[p].gov \cup {c.to}
      /\ \A d \in DOMAIN w.gov : w.gov[d] = IF d = c.to THEN n ELSE draft[p].gov[d]
  <2>1. /\ w = [ledger |-> w.ledger, gov |-> w.gov, moved |-> w.moved,
                adjusted |-> w.adjusted, locks |-> w.locks]
        /\ w.ledger = draft[p].ledger /\ w.moved = draft[p].moved
        /\ DOMAIN w.gov = DOMAIN draft[p].gov \cup {dept}
        /\ \A d \in DOMAIN w.gov : w.gov[d] = IF d = dept THEN n ELSE draft[p].gov[d]
    BY <1>w, <1>1, SetGovFields
  <2> QED  BY <1>d, <2>1
<1>8. DraftShape(w)
  <2>1. ASSUME NEW d \in Departments, d \in DOMAIN w.gov PROVE w.gov[d] \in Int
    <3>1. CASE d = c.to
      BY <1>6, <1>7, <2>1, <3>1
    <3>2. CASE d # c.to
      BY <1>1, <1>7, <2>1, <3>2 DEF DraftShape
    <3> QED  BY <3>1, <3>2
  <2> QED  BY <1>4, <1>7, <2>1 DEF DraftShape
<1>9. CallShape(p)'
  <2>1. \A d \in Departments \ Touches(c) : w.ledger[d] = 0 /\ d \notin DOMAIN w.gov
    <3> SUFFICES ASSUME NEW d \in Departments \ Touches(c)
                 PROVE  w.ledger[d] = 0 /\ d \notin DOMAIN w.gov
      OBVIOUS
    <3>1. draft[p].ledger[d] = 0 /\ d \notin DOMAIN draft[p].gov
      BY <1>1 DEF CallShape
    <3> QED  BY <1>5, <1>7, <3>1
  <2>2. seen[p].paid => c.op \in {"between", "tax"}
    BY <1>1 DEF CallShape
  <2> QED  BY <1>1, <1>3, <1>5, <1>7, <1>8, <2>1, <2>2 DEF CallShape
<1>10. ASSUME p \notin overlapped, NEW d \in Departments, d \in Touches(c), d \in clean
       PROVE  Follows(p, d)'
  <2>1. Follows(p, d)
    BY <1>1, <1>10, Unchanged
  <2>2. ~seen[p].paid => gov[d] = ledger[d]
    BY <2>1 DEF Follows
  <2>3. d = c.from \/ d = c.to
    BY <1>10, TouchesDepartments
  <2>4. CASE c.op = "tax"
    <3>1. FollowsTax(p, d) /\ d = c.to
      BY <1>1, <2>1, <2>3, <2>4 DEF Follows
    <3>2. d \in DOMAIN w.gov /\ w.gov[d] = gov[d] + c.amount
      BY <1>5, <1>7, <1>n, <2>4, <3>1 DEF FollowsTax
    <3>3. FollowsTax(p, d)'
      BY <1>3, <1>5, <1>7, <3>1, <3>2 DEF FollowsTax
    <3> QED  BY <1>3, <2>2, <2>4, <3>3 DEF Follows
  <2>5. CASE c.op = "issue"
    <3>1. FollowsIssue(p, d) /\ gov[d] = ledger[d]
      BY <1>1, <2>1, <2>5 DEF Follows, CallShape
    <3>2. /\ d \notin DOMAIN draft[p].gov
          /\ draft[p].ledger[d] = IF d = Bank THEN c.amount ELSE 0
          /\ seen[p].gov[d] = gov[d]
      BY <1>1, <3>1 DEF FollowsIssue
    <3>3. Drafted(p, d)'
      <4>1. CASE d = Bank
        BY <1>1, <1>3, <1>7, <1>n, <2>5, <3>1, <3>2, <4>1 DEF Drafted
      <4>2. CASE d # Bank
        BY <1>1, <1>3, <1>7, <2>5, <3>2, <4>2 DEF Drafted
      <4> QED  BY <4>1, <4>2
    <3>4. FollowsIssue(p, d)'
      BY <1>3, <3>3 DEF FollowsIssue
    <3> QED  BY <1>3, <2>2, <2>5, <3>4 DEF Follows
  <2>6. CASE c.op = "between"
    <3>1. FollowsBetween(p, d)
      BY <2>1, <2>6 DEF Follows
    <3>2. d = c.to => d \in DOMAIN w.gov /\ w.gov[d] = seen[p].econTo + c.amount
      BY <1>7, <1>n, <2>6
    <3>3. d = c.from /\ seen[p].paid => d \in DOMAIN w.gov /\ w.gov[d] = ledger[d]
      BY <1>1, <1>7, <2>6, <3>1 DEF FollowsBetween
    <3>4. FollowsBetween(p, d)'
      BY <1>3, <1>5, <1>7, <3>1, <3>2, <3>3 DEF FollowsBetween
    <3> QED  BY <1>3, <2>2, <2>6, <3>4 DEF Follows
  <2> QED  BY <2>4, <2>5, <2>6
<1> QED  BY <1>3, <1>9, <1>10, WorkingKeeps

-----------------------------------------------------------------------------
(* The panel that opens *)

\* An entry of a list is its first, or one of the rest.
LEMMA RestOfList ==
    ASSUME NEW S, NEW l \in Seq(S), l # <<>>
    PROVE  /\ Head(l) \in S /\ Tail(l) \in Seq(S) /\ Head(l) = l[1]
           /\ \A i \in DOMAIN l : i # 1 => i - 1 \in DOMAIN Tail(l) /\ Tail(l)[i - 1] = l[i]
           /\ Tail(l) = <<>> => DOMAIN Tail(l) = {}
<1>1. /\ Head(l) \in S /\ Tail(l) \in Seq(S) /\ Len(Tail(l)) = Len(l) - 1
      /\ \A i \in 1..Len(Tail(l)) : Tail(l)[i] = l[i + 1]
  BY HeadTailProperties
<1>2. Head(l) = l[1]
  OBVIOUS
<1>3. DOMAIN l = 1..Len(l) /\ Len(l) \in Nat /\ DOMAIN Tail(l) = 1..Len(Tail(l))
  BY <1>1
<1>4. ASSUME NEW i \in DOMAIN l, i # 1
      PROVE  i - 1 \in DOMAIN Tail(l) /\ Tail(l)[i - 1] = l[i]
  <2>1. i - 1 \in 1..Len(Tail(l)) /\ (i - 1) + 1 = i
    BY <1>1, <1>3, <1>4
  <2> QED  BY <1>1, <1>3, <2>1
<1>5. DOMAIN <<>> = {}
  OBVIOUS
<1> QED  BY <1>1, <1>2, <1>4, <1>5

LEMMA SnapshotKeeps ==
    ASSUME GInv, NEW p \in Callers, call[p].op = "ensure", Snapshot(p)
    PROVE  GInv'
<1> PICK dept : dept = Head(todo[p]).dept
  OBVIOUS
<1>s. PICK s : s = [seen[p] EXCEPT !.econ = ledger[dept]]
  OBVIOUS
<1> PICK same \in BOOLEAN : same <=> ledger[dept] = seen[p].gov[dept]
  <2>1. CASE ledger[dept] = seen[p].gov[dept]
    BY <2>1
  <2>2. CASE ~(ledger[dept] = seen[p].gov[dept])
    BY <2>2
  <2> QED  BY <2>1, <2>2
<1> PICK l : l = IF same THEN Tail(todo[p]) ELSE todo[p]
  OBVIOUS
<1> PICK step : step = IF same THEN (IF Tail(todo[p]) = <<>> THEN "commit" ELSE "snapshot")
                       ELSE "align"
  OBVIOUS
<1>R. PICK R : R = [dept: Departments, amount: {0}]
  OBVIOUS
<1>1. /\ CallShape(p) /\ at[p] = "snapshot" /\ call[p] \in Calls /\ SeenShape(seen[p])
      /\ DraftShape(draft[p]) /\ ~seen[p].paid /\ Departments \subseteq Accounts
      /\ ledger \in [Accounts -> Int]
  <2>1. CallShape(p) /\ at[p] = "snapshot"
    BY Unchanged DEF Snapshot
  <2> QED  BY <2>1 DEF CallShape, Accounts, GInv, Shape
<1>2. /\ dept \in Departments /\ todo[p] \in Seq(R) /\ todo[p] # <<>>
  BY <1>1, <1>R, HeadIsDepartment
<1>3. /\ See(p, s) /\ Goto(p, step) /\ Plans(p, l)
      /\ UNCHANGED <<ledger, gov, call, draft, overlapped, clean>>
  <2>1. See(p, s) /\ UNCHANGED <<ledger, gov, call, draft, overlapped, clean>>
    BY <1>s DEF Snapshot, tables, history
  <2>2. CASE same
    <3>1. NextDepartment(p, "snapshot")
      BY <2>2 DEF Snapshot
    <3> QED  BY <2>1, <2>2, <3>1 DEF NextDepartment, Plans
  <2>3. CASE ~same
    <3>1. Goto(p, "align") /\ todo' = todo
      BY <2>3 DEF Snapshot
    <3> QED  BY <2>1, <2>3, <3>1, Unchanged
  <2> QED  BY <2>2, <2>3
<1>4. step \in {"commit", "snapshot", "align"}
  OBVIOUS
<1>5. /\ Working(p) /\ at'[p] = step /\ seen'[p] = s /\ draft'[p] = draft[p] /\ todo'[p] = l
      /\ gov' = gov /\ clean' = clean /\ call'[p] = call[p]
      /\ overlapped' = overlapped /\ ledger' = ledger
  <2>1. Draft(p, draft[p]) /\ ledger' \in [Accounts -> Int]
    BY <1>3, Unchanged
  <2>2. step \notin {"idle", "plan"} /\ at[p] # "idle"
    BY <1>1, <1>4
  <2> QED  BY <1>3, <2>1, <2>2, StepFrame
<1>6. s = [gov |-> seen[p].gov, econ |-> ledger[dept], econTo |-> seen[p].econTo,
           paid |-> seen[p].paid]
  BY <1>s, <1>1 DEF SeenShape
<1>7. SeenShape(s) /\ ~s.paid /\ s.gov = seen[p].gov /\ s.econ = ledger[dept]
  BY <1>1, <1>2, <1>6 DEF SeenShape
<1>8. /\ Tail(todo[p]) \in Seq(R) /\ Head(todo[p]) = todo[p][1]
      /\ \A i \in DOMAIN todo[p] : i # 1 =>
            i - 1 \in DOMAIN Tail(todo[p]) /\ Tail(todo[p])[i - 1] = todo[p][i]
      /\ Tail(todo[p]) = <<>> => DOMAIN Tail(todo[p]) = {}
  BY <1>2, RestOfList
<1>9. CallShape(p)'
  <2>1. l \in Seq([dept: Departments, amount: {0}]) /\ (step # "commit" => l # <<>>)
    BY <1>2, <1>8, <1>R
  <2>2. at[p] \notin Before /\ step \notin Before
    BY <1>1, <1>4 DEF Before
  <2> QED  BY <1>1, <1>5, <1>7, <2>1, <2>2 DEF CallShape
<1>10. ASSUME p \notin overlapped, NEW d \in Departments, d \in Touches(call[p])
       PROVE  (d \in clean => Follows(p, d)') /\ Aligns(p, d)'
  <2>1. d \in clean => Follows(p, d)
    BY <1>1, <1>10, Unchanged
  <2>2. d \in clean => Follows(p, d)'
    BY <1>1, <1>5, <1>7, <2>1 DEF Follows
  <2>3. Aligns(p, d)
    BY <1>1, <1>10, Unchanged
  <2>4. Touches(call[p]) = Departments
    BY TouchesDepartments
  <2>5. Aligns(p, dept)
    BY <1>1, <1>2, <1>10, <2>4, Unchanged
  <2>6. /\ draft[p].ledger[d] = 0 /\ seen[p].gov[d] = gov[d]
        /\ d \in DOMAIN draft[p].gov => draft[p].gov[d] = ledger[d]
    BY <1>1, <2>3 DEF Aligns
  <2>7. same => ledger[dept] = gov[dept]
    BY <1>1, <2>5 DEF Aligns
  <2>8. \/ IF d \in DOMAIN draft[p].gov THEN draft[p].gov[d] = ledger[d] ELSE gov[d] = ledger[d]
        \/ \E i \in DOMAIN l : l[i].dept = d
    <3>1. CASE IF d \in DOMAIN draft[p].gov THEN draft[p].gov[d] = ledger[d] ELSE gov[d] = ledger[d]
      BY <3>1
    <3>2. CASE \E i \in DOMAIN todo[p] : todo[p][i].dept = d
      <4>1. PICK i \in DOMAIN todo[p] : todo[p][i].dept = d
        BY <3>2
      <4>2. CASE ~same
        BY <4>1, <4>2
      <4>3. CASE same /\ i = 1
        <5>1. d = dept
          BY <1>8, <4>1, <4>3
        <5> QED  BY <2>6, <2>7, <4>3, <5>1
      <4>4. CASE same /\ i # 1
        <5>1. i - 1 \in DOMAIN l /\ l[i - 1].dept = d
          BY <1>8, <4>1, <4>4
        <5> QED  BY <5>1
      <4> QED  BY <4>2, <4>3, <4>4
    <3> QED  BY <1>1, <2>3, <3>1, <3>2 DEF Aligns
  <2>9. step = "commit" =>
           IF d \in DOMAIN draft[p].gov THEN draft[p].gov[d] = ledger[d] ELSE gov[d] = ledger[d]
    BY <1>8, <2>8
  <2>10. step = "align" => s.econ = ledger[Head(l).dept]
    BY <1>7
  <2>11. Aligns(p, d)'
    BY <1>5, <1>7, <2>6, <2>8, <2>9, <2>10 DEF Aligns
  <2> QED  BY <2>2, <2>11
<1> QED  BY <1>5, <1>9, <1>10, WorkingKeeps

LEMMA AlignKeeps ==
    ASSUME GInv, NEW p \in Callers, call[p].op = "ensure", Align(p)
    PROVE  GInv'
<1> PICK dept : dept = Head(todo[p]).dept
  OBVIOUS
<1>w. PICK w : w = Lock(p, SetGov(draft[p], dept, seen[p].econ))
  OBVIOUS
<1> PICK l : l = Tail(todo[p])
  OBVIOUS
<1> PICK step : step = IF l = <<>> THEN "commit" ELSE "snapshot"
  OBVIOUS
<1>R. PICK R : R = [dept: Departments, amount: {0}]
  OBVIOUS
<1>1. /\ CallShape(p) /\ at[p] = "align" /\ call[p] \in Calls /\ SeenShape(seen[p])
      /\ DraftShape(draft[p]) /\ ~seen[p].paid
  <2>1. CallShape(p) /\ at[p] = "align"
    BY Unchanged DEF Align
  <2> QED  BY <2>1 DEF CallShape
<1>2. /\ dept \in Departments /\ todo[p] \in Seq(R) /\ todo[p] # <<>>
  BY <1>1, <1>R, HeadIsDepartment
<1>3. /\ Draft(p, w) /\ Goto(p, step) /\ Plans(p, l)
      /\ UNCHANGED <<ledger, gov, call, seen, overlapped, clean>>
  BY <1>w DEF Align, tables, history, NextDepartment, Plans
<1>4. step \in {"commit", "snapshot"}
  OBVIOUS
<1>5. /\ Working(p) /\ at'[p] = step /\ seen'[p] = seen[p] /\ draft'[p] = w /\ todo'[p] = l
      /\ gov' = gov /\ clean' = clean /\ call'[p] = call[p]
      /\ overlapped' = overlapped /\ ledger' = ledger
  <2>1. See(p, seen[p]) /\ ledger' \in [Accounts -> Int]
    BY <1>3, Unchanged
  <2>2. step \notin {"idle", "plan"} /\ at[p] # "idle"
    BY <1>1, <1>4
  <2> QED  BY <1>3, <2>1, <2>2, StepFrame, ZenonT(40)
<1>6. /\ w = [ledger |-> w.ledger, gov |-> w.gov, moved |-> w.moved,
              adjusted |-> w.adjusted, locks |-> w.locks]
      /\ w.ledger = draft[p].ledger /\ w.moved = draft[p].moved
      /\ DOMAIN w.gov = DOMAIN draft[p].gov \cup {dept}
      /\ \A d \in DOMAIN w.gov : w.gov[d] = IF d = dept THEN seen[p].econ ELSE draft[p].gov[d]
  BY <1>w, <1>1, SetGovFields
<1>7. DraftShape(w)
  <2>1. draft[p].ledger \in [Accounts -> Int] /\ draft[p].moved \in Nat /\ seen[p].econ \in Int
    BY <1>1 DEF DraftShape, SeenShape
  <2>2. ASSUME NEW d \in Departments, d \in DOMAIN w.gov PROVE w.gov[d] \in Int
    BY <1>1, <1>6, <2>1, <2>2 DEF DraftShape
  <2> QED  BY <1>6, <2>1, <2>2 DEF DraftShape
<1>8. /\ l \in Seq(R) /\ Head(todo[p]) = todo[p][1]
      /\ \A i \in DOMAIN todo[p] : i # 1 => i - 1 \in DOMAIN l /\ l[i - 1] = todo[p][i]
      /\ l = <<>> => DOMAIN l = {}
  BY <1>2, RestOfList
<1>9. Touches(call[p]) = Departments
  BY TouchesDepartments
<1>10. CallShape(p)'
  <2>1. l \in Seq([dept: Departments, amount: {0}]) /\ (step # "commit" => l # <<>>)
    BY <1>8, <1>R
  <2>2. at[p] \notin Before /\ step \notin Before
    BY <1>1, <1>4 DEF Before
  <2> QED  BY <1>1, <1>4, <1>5, <1>6, <1>7, <1>9, <2>1, <2>2 DEF CallShape
<1>11. ASSUME p \notin overlapped, NEW d \in Departments, d \in Touches(call[p])
       PROVE  (d \in clean => Follows(p, d)') /\ Aligns(p, d)'
  <2>1. d \in clean => Follows(p, d)
    BY <1>1, <1>11, Unchanged
  <2>2. d \in clean => Follows(p, d)'
    BY <1>1, <1>5, <2>1 DEF Follows
  <2>3. Aligns(p, d)
    BY <1>1, <1>11, Unchanged
  <2>4. /\ draft[p].ledger[d] = 0 /\ seen[p].gov[d] = gov[d]
        /\ d \in DOMAIN draft[p].gov => draft[p].gov[d] = ledger[d]
        /\ seen[p].econ = ledger[dept]
    BY <1>1, <2>3 DEF Aligns
  <2>5. d \in DOMAIN w.gov => w.gov[d] = ledger[d]
    BY <1>6, <2>4
  <2>6. \/ IF d \in DOMAIN w.gov THEN w.gov[d] = ledger[d] ELSE gov[d] = ledger[d]
        \/ \E i \in DOMAIN l : l[i].dept = d
    <3>1. CASE d \in DOMAIN w.gov
      BY <2>5, <3>1
    <3>2. CASE d \notin DOMAIN w.gov
      <4>1. d \notin DOMAIN draft[p].gov /\ d # dept
        BY <1>6, <3>2
      <4>2. gov[d] = ledger[d] \/ \E i \in DOMAIN todo[p] : todo[p][i].dept = d
        BY <1>1, <2>3, <4>1 DEF Aligns
      <4>3. CASE gov[d] = ledger[d]
        BY <3>2, <4>3
      <4>4. CASE \E i \in DOMAIN todo[p] : todo[p][i].dept = d
        <5>1. PICK i \in DOMAIN todo[p] : todo[p][i].dept = d
          BY <4>4
        <5>2. i # 1
          BY <1>8, <4>1, <5>1
        <5>3. i - 1 \in DOMAIN l /\ l[i - 1].dept = d
          BY <1>8, <5>1, <5>2
        <5> QED  BY <5>3
      <4> QED  BY <4>2, <4>3, <4>4
    <3> QED  BY <3>1, <3>2
  <2>7. step = "commit" =>
           IF d \in DOMAIN w.gov THEN w.gov[d] = ledger[d] ELSE gov[d] = ledger[d]
    BY <1>8, <2>6
  <2>8. Aligns(p, d)'
    BY <1>4, <1>5, <1>6, <2>4, <2>5, <2>6, <2>7, SMTT(30) DEF Aligns
  <2> QED  BY <2>2, <2>8
<1> QED  BY <1>5, <1>10, <1>11, WorkingKeeps

-----------------------------------------------------------------------------
(* The ends of a call *)

LEMMA RollbackKeeps ==
    ASSUME GInv, NEW p \in Callers, at[p] # "idle", Finish(p), UNCHANGED <<ledger, gov>>,
           clean' = CleanAfter(p, FALSE, FALSE)
    PROVE  GInv'
<1>1. /\ clean' \subseteq clean
      /\ \A d \in clean' : d \in Touches(call[p]) => p \notin overlapped /\ ~seen[p].paid
  BY DEF CleanAfter
<1>2. TablesKept(p)
  BY DEF TablesKept, GInv, Shape
<1>3. ASSUME NEW d \in Departments, d \in clean', d \in Touches(call[p])
      PROVE  gov'[d] = ledger'[d]
  <2>1. Follows(p, d) /\ ~seen[p].paid
    BY <1>1, <1>3, Unchanged
  <2> QED  BY <2>1 DEF Follows
<1>4. clean' \subseteq Departments
  BY <1>1 DEF GInv
<1> QED  BY <1>1, <1>2, <1>3, <1>4, EndKeeps

LEMMA CommitKeeps ==
    ASSUME GInv, NEW p \in Callers, Commit(p)
    PROVE  GInv'
<1> PICK c : c = call[p]
  OBVIOUS
<1> PICK w : w = draft[p]
  OBVIOUS
<1> PICK credited \in BOOLEAN : credited <=> w.moved > 0
  <2>1. CASE w.moved > 0
    BY <2>1
  <2>2. CASE ~(w.moved > 0)
    BY <2>2
  <2> QED  BY <2>1, <2>2
<1>1. /\ CallShape(p) /\ at[p] = "commit" /\ c \in Calls
      /\ ledger' = [a \in Accounts |-> ledger[a] + w.ledger[a]]
      /\ gov' = [d \in Departments |-> IF d \in DOMAIN w.gov THEN w.gov[d] ELSE gov[d]]
      /\ clean' = CleanAfter(p, TRUE, credited) /\ Finish(p)
      /\ ledger \in [Accounts -> Int] /\ gov \in [Departments -> Int]
      /\ Departments \subseteq Accounts /\ clean \subseteq Departments
  <2>1. CallShape(p) /\ at[p] = "commit"
    BY Unchanged DEF Commit
  <2>2. clean' = CleanAfter(p, TRUE, w.moved > 0) /\ Finish(p)
    BY DEF Commit
  <2>3. clean' = CleanAfter(p, TRUE, credited)
    BY <2>2 DEF CleanAfter
  <2> QED  BY <2>1, <2>2, <2>3 DEF CallShape, Commit, GInv, Shape, Accounts
<1>2. w.ledger \in [Accounts -> Int] /\ w.moved \in Nat
      /\ \A d \in Departments : d \in DOMAIN w.gov => w.gov[d] \in Int
  BY <1>1 DEF CallShape, DraftShape
<1>3. TablesKept(p)
  <2>1. ledger' \in [Accounts -> Int] /\ gov' \in [Departments -> Int]
    BY <1>1, <1>2
  <2>2. ASSUME NEW d \in Departments \ Touches(c)
        PROVE  ledger'[d] = ledger[d] /\ gov'[d] = gov[d]
    <3>1. w.ledger[d] = 0 /\ d \notin DOMAIN w.gov
      BY <1>1 DEF CallShape
    <3> QED  BY <1>1, <1>2, <3>1
  <2> QED  BY <2>1, <2>2 DEF TablesKept
<1>4. /\ clean' \subseteq Departments
      /\ \A d \in Departments : d \in clean' => d \in clean \/ d \in Touches(c)
      /\ c.op # "ensure" => clean' \subseteq clean
  BY <1>1, TouchesDepartments DEF CleanAfter
<1>5. \A d \in clean' : d \in Touches(c) =>
         /\ p \notin overlapped
         /\ c.op \in {"between", "tax"} => seen[p].paid
         /\ c.op = "touser" => w.moved # 0
         /\ c.op = "auto" /\ w.moved > 0 => d # c.to
  BY <1>1 DEF CleanAfter
<1>6. ASSUME NEW d \in Departments, d \in clean', d \in Touches(c)
      PROVE  gov'[d] = ledger'[d]
  <2>1. p \notin overlapped /\ at[p] # "idle"
    BY <1>1, <1>5, <1>6
  <2>2. ledger'[d] = ledger[d] + w.ledger[d]
    BY <1>1
  <2>3. gov'[d] = IF d \in DOMAIN w.gov THEN w.gov[d] ELSE gov[d]
    BY <1>1
  <2>4. ledger[d] \in Int
    BY <1>1
  <2>5. CASE c.op = "ensure"
    <3>1. Aligns(p, d)
      BY <1>6, <2>1, <2>5, Unchanged
    <3> QED  BY <1>1, <2>2, <2>3, <2>4, <3>1 DEF Aligns
  <2>6. CASE c.op # "ensure"
    <3>1. Follows(p, d)
      BY <1>4, <1>6, <2>1, <2>6, Unchanged
    <3>2. d = c.from \/ d = c.to \/ c.op = "auto"
      BY <1>6, <2>6, TouchesDepartments
    <3>3. Drafted(p, d) /\ gov[d] = ledger[d] => gov'[d] = ledger'[d]
      BY <2>2, <2>3, <2>4 DEF Drafted
    <3>4. c.op \notin {"between", "tax"} => gov[d] = ledger[d]
      BY <1>1, <3>1 DEF Follows, CallShape
    <3>5. CASE c.op \in {"welfare", "touser"}
      <4>1. w.moved > 0
        <5>1. CASE c.op = "welfare"
          <6>1. FollowsWelfare(p, d)
            BY <3>1, <5>1 DEF Follows
          <6> QED  BY <1>1, <5>1, <6>1 DEF FollowsWelfare
        <5>2. CASE c.op = "touser"
          <6>1. w.moved # 0
            BY <1>5, <1>6, <5>2
          <6> QED  BY <1>2, <6>1
        <5> QED  BY <3>5, <5>1, <5>2
      <4>2. Drafted(p, d)
        BY <1>1, <3>1, <3>5, <4>1 DEF Follows, FollowsWelfare
      <4> QED  BY <3>3, <3>4, <3>5, <4>2
    <3>6. CASE c.op = "issue"
      <4>1. Drafted(p, d)
        BY <1>1, <3>1, <3>6 DEF Follows, FollowsIssue
      <4> QED  BY <3>3, <3>4, <3>6, <4>1
    <3>7. CASE c.op = "auto"
      <4>1. FollowsDeduction(p, d)
        BY <3>1, <3>7 DEF Follows
      <4>2. Drafted(p, d)
        <5>1. CASE w.moved > 0
          BY <1>1, <1>5, <1>6, <3>7, <4>1, <5>1 DEF FollowsDeduction
        <5>2. CASE ~(w.moved > 0)
          BY <1>2, <4>1, <5>2 DEF FollowsDeduction, Drafted
        <5> QED  BY <5>1, <5>2
      <4> QED  BY <3>3, <3>4, <3>7, <4>2
    <3>8. CASE c.op = "tax"
      <4>1. FollowsTax(p, d) /\ seen[p].paid
        BY <1>5, <1>6, <3>1, <3>8 DEF Follows
      <4>2. /\ w.ledger[d] = 0 /\ ledger[d] = gov[d] + c.amount
            /\ d \in DOMAIN w.gov /\ w.gov[d] = gov[d] + c.amount
        BY <1>1, <4>1 DEF FollowsTax
      <4> QED  BY <2>2, <2>3, <2>4, <4>2
    <3>9. CASE c.op = "between"
      <4>1. FollowsBetween(p, d) /\ seen[p].paid
        BY <1>5, <1>6, <3>1, <3>9 DEF Follows
      <4>2. w.ledger[d] = 0 /\ d \in DOMAIN w.gov /\ w.gov[d] = ledger[d]
        BY <1>1, <3>2, <3>9, <4>1 DEF FollowsBetween
      <4> QED  BY <2>2, <2>3, <2>4, <4>2
    <3> QED  BY <1>1, <2>6, <3>5, <3>6, <3>7, <3>8, <3>9, CallsAreKnown DEF Ops
  <2> QED  BY <2>5, <2>6
<1> QED  BY <1>1, <1>3, <1>4, <1>6, EndKeeps

LEMMA PlanKeeps ==
    ASSUME GInv, NEW p \in Callers, call[p].op = "auto", Plan(p)
    PROVE  GInv'
<1>1. /\ at[p] = "plan" /\ CallShape(p) /\ UNCHANGED <<ledger, gov, clean>>
      /\ Touches(call[p]) = Departments
  BY Unchanged, TouchesDepartments DEF Plan, tables
<1>2. CASE Finish(p)
  <2>1. TablesKept(p)
    BY <1>1 DEF TablesKept, GInv, Shape
  <2>2. ASSUME NEW d \in Departments, d \in clean',
               \A q \in Callers \ {p} :
                  at[q] # "idle" /\ d \in Touches(call[q]) => at[q] = "plan"
        PROVE  gov'[d] = ledger'[d]
    <3>1. \A q \in Callers : at[q] # "idle" /\ d \in Touches(call[q]) => at[q] = "plan"
      BY <1>1, <2>2
    <3> QED  BY <1>1, <2>2, <3>1 DEF GInv, RestingAgree
  <2>3. clean' \subseteq Departments
    BY <1>1 DEF GInv
  <2> QED  BY <1>1, <1>2, <2>1, <2>2, <2>3, EndKeeps
<1>3. CASE ~Finish(p)
  <2> PICK l : l = DeductionPlan([d \in Departments |-> ledger[d]], call[p].amount)
    OBVIOUS
  <2>1. /\ Goto(p, "acquire") /\ todo' = [todo EXCEPT ![p] = l]
        /\ UNCHANGED <<call, seen, draft, overlapped>>
    BY <1>3 DEF Plan
  <2>2. Plans(p, l)
    BY <2>1 DEF Plans
  <2>3. /\ Working(p) /\ at'[p] = "acquire" /\ seen'[p] = seen[p] /\ draft'[p] = draft[p]
        /\ gov' = gov /\ clean' = clean /\ call'[p] = call[p]
        /\ overlapped' = overlapped /\ ledger' = ledger
    <3>1. See(p, seen[p]) /\ Draft(p, draft[p]) /\ ledger' \in [Accounts -> Int]
      BY <1>1, <2>1, Unchanged
    <3>2. "acquire" \notin {"idle", "plan"} /\ at[p] # "idle"
      BY <1>1
    <3> QED  BY <1>1, <2>1, <2>2, <3>1, <3>2, StepFrame
  <2>4. CallShape(p)'
    BY <1>1, <2>3 DEF CallShape, Before
  <2>5. ASSUME p \notin overlapped, NEW d \in Departments, d \in Touches(call[p]), d \in clean
        PROVE  Follows(p, d)'
    <3>1. Follows(p, d)
      BY <1>1, <2>5, Unchanged
    <3>2. draft[p].moved = 0 /\ d \notin DOMAIN draft[p].gov /\ draft[p].ledger[d] = 0
      BY <1>1, NothingYet DEF CallShape, Before
    <3>3. FollowsDeduction(p, d)'
      BY <2>3, <3>2 DEF FollowsDeduction, Drafted
    <3> QED  BY <2>3, <3>1, <3>3 DEF Follows
  <2> QED  BY <2>3, <2>4, <2>5, WorkingKeeps
<1> QED  BY <1>2, <1>3

\* A deadlock's victim waits for a row, so its call is under way.
LEMMA VictimsWork ==
    ASSUME NEW p \in Callers, InCycle(p)
    PROVE  at[p] # "idle"
<1>1. PICK S \in SUBSET Callers :
         p \in S /\ \A q \in S : \E r \in S : WaitsFor(q, r)
  BY DEF InCycle
<1>2. PICK r \in S : WaitsFor(p, r)
  BY <1>1
<1>3. Wanted(p) # {}
  BY <1>2 DEF WaitsFor
<1> QED  BY <1>3 DEF Wanted

-----------------------------------------------------------------------------
(* What is not a statement of a call *)

LEMMA StartKeeps ==
    ASSUME GInv, NEW p \in Callers, NEW c \in Calls, Start(p, c)
    PROVE  GInv'
<1> PICK met : met = {q \in Active : Touches(call[q]) \cap Touches(c) # {}}
  OBVIOUS
<1> PICK step : step = IF c.op = "auto" THEN "plan" ELSE "acquire"
  OBVIOUS
<1>1. /\ at[p] = "idle" /\ CallShape(p) /\ draft[p] = EmptyDraft /\ seen[p] = NothingSeen
      /\ todo[p] = <<>> /\ p \notin overlapped
  BY Unchanged DEF Start, CallShape, Before
<1>2. /\ at' = [at EXCEPT ![p] = step] /\ call' = [call EXCEPT ![p] = c]
      /\ overlapped' = IF met = {} THEN overlapped ELSE overlapped \cup met \cup {p}
      /\ UNCHANGED <<ledger, gov, seen, draft, todo, clean>>
  BY DEF Start, Goto, tables, private
<1>3. /\ at' = [q \in Callers |-> at'[q]] /\ call' = [q \in Callers |-> call'[q]]
      /\ at'[p] = step /\ call'[p] = c
      /\ \A q \in Callers \ {p} : at'[q] = at[q] /\ call'[q] = call[q]
  BY <1>2 DEF GInv, Shape
<1>4. met \subseteq Callers /\ \A q \in met : at[q] # "idle"
  BY DEF Active
<1>5. step \in {"plan", "acquire"} /\ step # "idle"
  OBVIOUS
<1>6. Shape'
  <2>1. ASSUME NEW q \in Callers PROVE CallShape(q)'
    <3>1. CASE q = p
      <4>1. <<>> \in Seq([dept: Departments, amount: {0}])
        OBVIOUS
      <4> QED  BY <1>1, <1>2, <1>3, <1>5, <3>1, <4>1, NothingYet DEF CallShape, Before
    <3>2. CASE q # p
      <4>1. CallShape(q)
        BY DEF GInv, Shape
      <4>2. q \in overlapped' => q \in overlapped \/ at[q] # "idle"
        BY <1>2, <1>4, <3>2
      <4> QED  BY <1>2, <1>3, <3>2, <4>1, <4>2, ShapeIsLocal
    <3> QED  BY <3>1, <3>2
  <2> QED  BY <1>2, <1>3, <2>1 DEF GInv, Shape
<1>7. MeetingsAreKnown'
  <2> SUFFICES ASSUME NEW q \in Callers, NEW r \in Callers, q # r,
                      at'[q] # "idle", at'[r] # "idle",
                      Touches(call'[q]) \cap Touches(call'[r]) # {}
               PROVE  q \in overlapped' /\ r \in overlapped'
    BY DEF MeetingsAreKnown, Touches
  <2>1. CASE q # p /\ r # p
    BY <1>2, <1>3, <2>1 DEF GInv, MeetingsAreKnown
  <2>2. CASE q = p
    <3>1. r \in met
      BY <1>3, <2>2 DEF Active
    <3> QED  BY <1>2, <2>2, <3>1
  <2>3. CASE r = p
    <3>1. q \in met
      BY <1>3, <2>3 DEF Active
    <3> QED  BY <1>2, <2>3, <3>1
  <2> QED  BY <2>1, <2>2, <2>3
<1>8. AlonesFollow'
  <2> SUFFICES ASSUME NEW q \in Callers, NEW d \in Departments,
                      at'[q] # "idle", q \notin overlapped', d \in Touches(call'[q])
               PROVE  /\ d \in clean' => Follows(q, d)'
                      /\ call'[q].op = "ensure" => Aligns(q, d)'
    BY DEF AlonesFollow, Touches
  <2>1. CASE q # p
    <3>1. /\ d \in clean => Follows(q, d)
          /\ call[q].op = "ensure" => Aligns(q, d)
      BY <1>2, <1>3, <2>1, Unchanged
    <3> QED  BY <1>2, <1>3, <2>1, <3>1, FollowsIsLocal, AlignsIsLocal
  <2>2. CASE q = p
    <3>1. met = {}
      BY <1>2, <2>2
    <3>2. \A r \in Callers : at[r] # "idle" => d \notin Touches(call[r])
      BY <1>3, <2>2, <3>1 DEF Active
    <3>3. d \in clean => gov[d] = ledger[d]
      BY <3>2 DEF GInv, RestingAgree
    <3>4. /\ draft[p].moved = 0 /\ d \notin DOMAIN draft[p].gov /\ draft[p].ledger[d] = 0
          /\ ~seen[p].paid
      BY <1>1, NothingYet
    <3>5. Aligns(p, d)'
      BY <1>2, <1>3, <1>5, <3>4 DEF Aligns
    <3>6. d \in clean => Follows(p, d)'
      BY <1>2, <1>3, <1>5, <3>3, <3>4
         DEF Follows, FollowsWelfare, FollowsIssue, FollowsTax, FollowsBetween,
             FollowsDeduction, Drafted, Before
    <3> QED  BY <1>2, <2>2, <3>5, <3>6
  <2> QED  BY <2>1, <2>2
<1>9. RestingAgree'
  <2> SUFFICES ASSUME NEW d \in clean',
                      \A q \in Callers : at'[q] # "idle" /\ d \in Touches(call'[q]) => at'[q] = "plan"
               PROVE  gov'[d] = ledger'[d]
    BY DEF RestingAgree, Touches
  <2>1. \A q \in Callers : at[q] # "idle" /\ d \in Touches(call[q]) => at[q] = "plan"
    BY <1>1, <1>3
  <2> QED  BY <1>2, <2>1 DEF GInv, RestingAgree
<1>10. overlapped' \subseteq Callers /\ clean' \subseteq Departments
  BY <1>2, <1>4 DEF GInv
<1> QED  BY <1>6, <1>7, <1>8, <1>9, <1>10 DEF GInv

LEMMA DirectOpKeeps ==
    ASSUME GInv, NEW o \in DirectOps, DirectOp(o)
    PROVE  GInv'
<1> PICK met : met = {p \in Active : o.to \in Touches(call[p])}
  OBVIOUS
<1>1. /\ o.to \in Departments /\ o.from \notin Departments /\ o.amount \in Int
      /\ Departments \subseteq Accounts
  BY DirectOpsAssumption, AccountsAssumption DEF Accounts
<1>2. /\ ledger' = Moved(ledger, o.from, o.to, o.amount)
      /\ clean' = clean \ {o.to} /\ overlapped' = overlapped \cup met
      /\ UNCHANGED <<gov, at, call, seen, draft, todo>>
  BY DEF DirectOp, private
<1>3. /\ ledger \in [Accounts -> Int] /\ ledger' \in [Accounts -> Int]
      /\ \A d \in Departments : d # o.to => ledger'[d] = ledger[d]
  <2>1. ledger \in [Accounts -> Int]
    BY DEF GInv, Shape
  <2> QED  BY <1>1, <1>2, <2>1, MovedLedger
<1>4. met \subseteq Callers /\ \A q \in met : at[q] # "idle"
  BY DEF Active
<1>5. Shape'
  <2>1. ASSUME NEW q \in Callers PROVE CallShape(q)'
    <3>1. CallShape(q)
      BY DEF GInv, Shape
    <3>2. q \in overlapped' => q \in overlapped \/ at[q] # "idle"
      BY <1>2, <1>4
    <3> QED  BY <1>2, <3>1, <3>2, ShapeIsLocal
  <2> QED  BY <1>2, <1>3, <2>1 DEF GInv, Shape
<1>6. MeetingsAreKnown'
  BY <1>2 DEF GInv, MeetingsAreKnown
<1>7. AlonesFollow'
  <2> SUFFICES ASSUME NEW q \in Callers, NEW d \in Departments,
                      at'[q] # "idle", q \notin overlapped', d \in Touches(call'[q])
               PROVE  /\ d \in clean' => Follows(q, d)'
                      /\ call'[q].op = "ensure" => Aligns(q, d)'
    BY DEF AlonesFollow, Touches
  <2>1. o.to \notin Touches(call[q]) /\ q \notin overlapped /\ at[q] # "idle" /\ d \in Touches(call[q])
    BY <1>2 DEF Active
  <2>2. call[q].op # "ensure" /\ d # o.to
    BY <1>1, <2>1, TouchesDepartments
  <2>3. d \in clean' => Follows(q, d)
    BY <1>2, <2>1, Unchanged
  <2>4. d \in clean' => Follows(q, d)'
    BY <1>2, <1>3, <2>2, <2>3, FollowsIsLocal
  <2> QED  BY <1>2, <2>2, <2>4
<1>8. RestingAgree'
  <2> SUFFICES ASSUME NEW d \in clean',
                      \A q \in Callers : at'[q] # "idle" /\ d \in Touches(call'[q]) => at'[q] = "plan"
               PROVE  gov'[d] = ledger'[d]
    BY DEF RestingAgree, Touches
  <2>1. d \in clean /\ d # o.to /\ d \in Departments
    BY <1>2 DEF GInv
  <2>2. gov[d] = ledger[d]
    BY <1>2, <2>1 DEF GInv, RestingAgree
  <2> QED  BY <1>2, <1>3, <2>1, <2>2
<1>9. overlapped' \subseteq Callers /\ clean' \subseteq Departments
  BY <1>2, <1>4 DEF GInv
<1> QED  BY <1>5, <1>6, <1>7, <1>8, <1>9 DEF GInv

-----------------------------------------------------------------------------
(* The theorem *)

LEMMA GInvInit == Init => GInv
<1> SUFFICES ASSUME Init PROVE GInv
  OBVIOUS
<1>1. \A p \in Callers :
         /\ at[p] = "idle" /\ call[p] = NoCall /\ seen[p] = NothingSeen
         /\ draft[p] = EmptyDraft /\ todo[p] = <<>>
  BY DEF Init
<1>2. Shape
  <2>1. ASSUME NEW p \in Callers PROVE CallShape(p)
    <3>1. NoCall.op = "none" /\ p \notin overlapped
      BY DEF NoCall, Init
    <3> QED  BY <1>1, <3>1, NothingYet DEF CallShape, Before
  <2>2. ledger \in [Accounts -> Int] /\ gov \in [Departments -> Int]
    BY InitialBalanceAssumption DEF Init, Accounts
  <2> QED  BY <2>1, <2>2 DEF Shape, Init
<1>3. RestingAgree
  BY DEF RestingAgree, Init
<1> QED  BY <1>1, <1>2, <1>3 DEF GInv, MeetingsAreKnown, AlonesFollow, Init

LEMMA StepKeeps ==
    ASSUME GInv, NEW p \in Callers, Step(p)
    PROVE  GInv'
<1>1. ASSUME Rollback(p), at[p] # "idle" PROVE GInv'
  BY <1>1, RollbackKeeps DEF Rollback, tables
<1>2. CASE disburse_welfare(p)
  <2>1. RefuseWelfare(p) => Rollback(p) /\ at[p] # "idle"
    BY DEF RefuseWelfare, AtPay
  <2> QED  BY <1>1, <1>2, <2>1, AcquireKeeps, ReadKeeps, EconKeeps, GrantKeeps, PayKeeps,
              GovFromKeeps, CommitKeeps DEF disburse_welfare
<1>3. CASE collect_tax(p)
  BY <1>3, AcquireKeeps, ReadKeeps, BorrowKeeps, PayOutKeeps, GovToKeeps, CommitKeeps
     DEF collect_tax
<1>4. CASE issue_currency(p)
  <2>1. CASE Sum(p)
    <3>1. at[p] = "sum" /\ call[p].op = "issue"
      BY <1>4, <2>1 DEF Sum, issue_currency
    <3>2. CASE Rollback(p)
      BY <1>1, <3>1, <3>2
    <3>3. CASE Goto(p, "permit") /\ UNCHANGED <<tables, call, private, history>>
      BY <3>1, <3>3, SumKeeps DEF tables, private, history
    <3> QED  BY <2>1, <3>2, <3>3 DEF Sum
  <2>2. CASE Permit(p)
    <3>1. /\ at[p] = "permit" /\ call[p].op = "issue" /\ Goto(p, "read")
          /\ UNCHANGED <<ledger, gov, call, seen, draft, todo, overlapped, clean>>
      BY <1>4, <2>2 DEF Permit, issue_currency, tables, private, history
    <3> QED  BY <3>1, SumKeeps
  <2> QED  BY <1>4, <2>1, <2>2, AcquireKeeps, ReadKeeps, MintKeeps, GovToKeeps, CommitKeeps
           DEF issue_currency
<1>5. CASE transfer_between_departments(p)
  BY <1>5, AcquireKeeps, ReadKeeps, EconKeeps, GrantKeeps, EconToKeeps, BorrowKeeps, PayOutKeeps,
     GovFromKeeps, GovToKeeps, CommitKeeps DEF transfer_between_departments
<1>6. CASE transfer_department_to_user(p)
  <2>1. RefuseToUser(p) => Rollback(p) /\ at[p] # "idle"
    BY DEF RefuseToUser, AtPay
  <2>2. CASE AssumePaid(p)
    <3>1. /\ at[p] = "pay" /\ call[p].op = "touser" /\ Goto(p, "govFrom")
          /\ UNCHANGED <<ledger, gov, call, seen, draft, todo, overlapped, clean>>
      BY <1>6, <2>2 DEF AssumePaid, AtPay, transfer_department_to_user, tables, private, history
    <3> QED  BY <3>1, AssumedKeeps
  <2> QED  BY <1>1, <1>6, <2>1, <2>2, AcquireKeeps, ReadKeeps, EconKeeps, GrantKeeps, PayKeeps,
              GovFromKeeps, CommitKeeps DEF transfer_department_to_user
<1>7. CASE transfer_from_state_council_auto_deduct(p)
  <2>1. CASE SkipDepartment(p)
    <3>1. /\ at[p] = "pay" /\ call[p].op = "auto" /\ NextDepartment(p, "pay")
          /\ UNCHANGED <<ledger, gov, call, seen, draft, overlapped, clean>>
      BY <1>7, <2>1 DEF SkipDepartment, AtPay, transfer_from_state_council_auto_deduct,
                        tables, history
    <3> QED  BY <3>1, SkipKeeps
  <2> QED  BY <1>7, <2>1, PlanKeeps, AcquireKeeps, PayKeeps, GovFromKeeps, CommitKeeps
           DEF transfer_from_state_council_auto_deduct
<1>8. CASE ensure_government_accounts(p)
  BY <1>8, AcquireKeeps, ReadKeeps, SnapshotKeeps, AlignKeeps, CommitKeeps
     DEF ensure_government_accounts
<1>9. CASE Victim(p)
  <2>1. at[p] # "idle"
    BY <1>9, VictimsWork DEF Victim
  <2>2. CASE /\ at[p] = "pay" /\ call[p].op = "auto" /\ NextDepartment(p, "pay")
             /\ UNCHANGED <<tables, call, seen, draft, history>>
    BY <2>2, SkipKeeps DEF tables, history
  <2>3. CASE /\ at[p] = "pay" /\ call[p].op = "touser" /\ Goto(p, "govFrom")
             /\ UNCHANGED <<tables, call, private, history>>
    BY <2>3, AssumedKeeps DEF tables, private, history
  <2>4. CASE Rollback(p)
    BY <1>1, <2>1, <2>4
  <2> QED  BY <1>9, <2>2, <2>3, <2>4 DEF Victim
<1> QED  BY <1>2, <1>3, <1>4, <1>5, <1>6, <1>7, <1>8, <1>9 DEF Step

LEMMA GInvStep == GInv /\ [Next]_vars => GInv'
<1> SUFFICES ASSUME GInv, [Next]_vars PROVE GInv'
  OBVIOUS
<1>1. CASE UNCHANGED vars
  <2>1. UNCHANGED <<ledger, gov, at, call, seen, draft, todo, overlapped, clean>>
    BY <1>1 DEF vars, tables, private, history
  <2>2. Shape'
    <3>1. ASSUME NEW q \in Callers PROVE CallShape(q)'
      <4>1. CallShape(q)
        BY DEF GInv, Shape
      <4> QED  BY <2>1, <4>1, ShapeIsLocal
    <3> QED  BY <2>1, <3>1 DEF GInv, Shape
  <2>3. MeetingsAreKnown'
    BY <2>1 DEF GInv, MeetingsAreKnown
  <2>4. AlonesFollow'
    <3> SUFFICES ASSUME NEW q \in Callers, NEW d \in Departments,
                        at'[q] # "idle", q \notin overlapped', d \in Touches(call'[q])
                 PROVE  /\ d \in clean' => Follows(q, d)'
                        /\ call'[q].op = "ensure" => Aligns(q, d)'
      BY DEF AlonesFollow, Touches
    <3>1. /\ d \in clean => Follows(q, d)
          /\ call[q].op = "ensure" => Aligns(q, d)
      BY <2>1, Unchanged
    <3> QED  BY <2>1, <3>1, FollowsIsLocal, AlignsIsLocal
  <2>5. RestingAgree'
    BY <2>1 DEF GInv, RestingAgree
  <2> QED  BY <2>1, <2>2, <2>3, <2>4, <2>5 DEF GInv
<1>2. ASSUME NEW p \in Callers, NEW c \in Calls, Start(p, c) PROVE GInv'
  BY <1>2, StartKeeps
<1>3. ASSUME NEW p \in Callers, Step(p) PROVE GInv'
  BY <1>3, StepKeeps
<1>4. ASSUME NEW p \in Callers, Fail(p) PROVE GInv'
  <2>1. at[p] # "idle" /\ Finish(p) /\ UNCHANGED <<ledger, gov>>
        /\ clean' = CleanAfter(p, FALSE, FALSE)
    BY <1>4 DEF Fail, Held, tables
  <2> QED  BY <2>1, RollbackKeeps
<1>5. ASSUME NEW o \in DirectOps, DirectOp(o) PROVE GInv'
  BY <1>5, DirectOpKeeps
<1> QED  BY <1>1, <1>2, <1>3, <1>4, <1>5 DEF Next

\* While a department's calls run one at a time, are neither cut off nor refused
\* by the ledger, and nothing else touches its account, the cached balance of
\* government_accounts is the ledger's; opening the panel restores that.
THEOREM CacheFollows == Spec => []GovernanceFollowsLedger
<1>1. GInv => GovernanceFollowsLedger
  <2> SUFFICES ASSUME GInv, NEW d \in clean, \A p \in Active : d \notin Touches(call[p])
               PROVE  gov[d] = ledger[d]
    BY DEF GovernanceFollowsLedger
  <2>1. \A p \in Callers : at[p] # "idle" /\ d \in Touches(call[p]) => at[p] = "plan"
    BY DEF Active
  <2> QED  BY <2>1 DEF GInv, RestingAgree
<1>2. Spec => []GInv
  BY GInvInit, GInvStep, PTL DEF Spec
<1> QED  BY <1>1, <1>2, PTL

-----------------------------------------------------------------------------
(* Sums: a sum over a finite set in terms of its parts *)

\* A property that holds of a part of a finite set when it holds of every
\* smaller part of it holds of the whole; G is the parts that have it.
LEMMA SubsetInduction ==
    ASSUME NEW S, IsFiniteSet(S), NEW G \in SUBSET SUBSET S,
           \A s \in SUBSET S : (\A t \in SUBSET s : t # s => t \in G) => s \in G
    PROVE  G = SUBSET S
<1> PICK B : B = (SUBSET S) \ G
  OBVIOUS
<1>1. IsWellFoundedOn(StrictSubsetOrdering(S), FiniteSubsetsOf(S))
  BY FS_StrictSubsetOrderingWellFounded
<1>2. \A s \in SUBSET S : s \in FiniteSubsetsOf(S)
  BY FS_Subset DEF FiniteSubsetsOf
<1> SUFFICES ASSUME B # {} PROVE FALSE
  OBVIOUS
<1>3. B \subseteq FiniteSubsetsOf(S)
  BY <1>2
<1>4. PICK s \in B : \A t \in B : <<t, s>> \notin StrictSubsetOrdering(S)
  BY <1>1, <1>3, WFMin
<1>5. ASSUME NEW t \in SUBSET s, t # s PROVE t \in G
  <2>1. <<t, s>> \in StrictSubsetOrdering(S)
    BY <1>5 DEF StrictSubsetOrdering
  <2> QED  BY <1>4, <2>1
<1> QED  BY <1>4, <1>5

\* SumOf sums by taking one element after another, as g does for the parts of S.
FirstOf(s) == CHOOSE x \in s : TRUE
RestOf(s) == s \ {FirstOf(s)}
IsTally(g, f, S) ==
    g = [s \in SUBSET S |-> IF s = {} THEN 0 ELSE f[FirstOf(s)] + g[RestOf(s)]]
Tally(f, S) == CHOOSE g : IsTally(g, f, S)

LEMMA SumIsTally == ASSUME NEW f, NEW S PROVE SumOf(f, S) = Tally(f, S)[S]
BY Zenon DEF SumOf, MapThenSumSet, MapThenFoldSet, Tally, IsTally, FirstOf, RestOf

LEMMA TallyUnfolds ==
    ASSUME NEW f, NEW S, NEW g, IsTally(g, f, S), NEW s \in SUBSET S
    PROVE  /\ s = {} => g[s] = 0
           /\ s # {} => /\ g[s] = f[FirstOf(s)] + g[RestOf(s)]
                        /\ FirstOf(s) \in s /\ RestOf(s) \in SUBSET s /\ RestOf(s) # s
<1>1. g[s] = IF s = {} THEN 0 ELSE f[FirstOf(s)] + g[RestOf(s)]
  BY DEF IsTally
<1>2. s # {} => FirstOf(s) \in s
  BY DEF FirstOf
<1> QED  BY <1>1, <1>2 DEF RestOf

\* The sum of a part does not depend on the set it is a part of.
LEMMA TalliesAgree ==
    ASSUME NEW f, NEW S, IsFiniteSet(S), NEW T \in SUBSET S, NEW g, NEW h, IsTally(g, f, S), IsTally(h, f, T)
    PROVE  \A s \in SUBSET T : g[s] = h[s]
<1> DEFINE G == {s \in SUBSET T : g[s] = h[s]}
<1>1. ASSUME NEW s \in SUBSET T, \A t \in SUBSET s : t # s => t \in G
      PROVE  s \in G
  <2>1. CASE s = {}
    <3>1. g[s] = 0
      BY <2>1, TallyUnfolds
    <3>2. h[s] = 0
      BY <2>1, TallyUnfolds
    <3> QED  BY <3>1, <3>2
  <2>2. CASE s # {}
    <3>1. RestOf(s) \in G /\ g[s] = f[FirstOf(s)] + g[RestOf(s)]
      BY <1>1, <2>2, TallyUnfolds
    <3>2. h[s] = f[FirstOf(s)] + h[RestOf(s)]
      BY <2>2, TallyUnfolds
    <3> QED  BY <3>1, <3>2
  <2> QED  BY <2>1, <2>2
<1>2. IsFiniteSet(T)
  BY FS_Subset
<1>3. G = SUBSET T
  <2>1. G \in SUBSET SUBSET T
    OBVIOUS
  <2>2. \A s \in SUBSET T : (\A t \in SUBSET s : t # s => t \in G) => s \in G
    BY <1>1
  <2> HIDE DEF G
  <2> QED  BY <1>2, <2>1, <2>2, SubsetInduction
<1> QED  BY <1>3

LEMMA TallyExists ==
    ASSUME NEW f, NEW S, IsFiniteSet(S)
    PROVE  \A T \in SUBSET S : IsTally(Tally(f, T), f, T)
<1> DEFINE G == {T \in SUBSET S : IsTally(Tally(f, T), f, T)}
<1>1. ASSUME NEW T \in SUBSET S, \A t \in SUBSET T : t # T => t \in G
      PROVE  T \in G
  <2> DEFINE sum(s) == IF s = {} THEN 0 ELSE f[FirstOf(s)] + Tally(f, RestOf(s))[RestOf(s)]
             g == [s \in SUBSET T |-> sum(s)]
  <2>1. ASSUME NEW t \in SUBSET T, t # T PROVE sum(t) = Tally(f, t)[t]
    <3>1. IsTally(Tally(f, t), f, t)
      BY <1>1, <2>1
    <3>2. CASE t = {}
      BY <3>1, <3>2, TallyUnfolds
    <3>3. CASE t # {}
      <4>1. Tally(f, t)[t] = f[FirstOf(t)] + Tally(f, t)[RestOf(t)]
            /\ RestOf(t) \in SUBSET t /\ RestOf(t) # t
        BY <3>1, <3>3, TallyUnfolds
      <4>2. IsTally(Tally(f, RestOf(t)), f, RestOf(t))
        BY <1>1, <2>1, <4>1
      <4>3. IsFiniteSet(t)
        BY FS_Subset
      <4>4. Tally(f, t)[RestOf(t)] = Tally(f, RestOf(t))[RestOf(t)]
        BY <3>1, <4>1, <4>2, <4>3, TalliesAgree
      <4> QED  BY <3>3, <4>1, <4>4
    <3> QED  BY <3>2, <3>3
  <2>2. IsTally(g, f, T)
    <3> SUFFICES ASSUME NEW s \in SUBSET T
                 PROVE  g[s] = IF s = {} THEN 0 ELSE f[FirstOf(s)] + g[RestOf(s)]
      BY DEF IsTally
    <3>1. CASE s = {}
      BY <3>1
    <3>2. CASE s # {}
      <4>1. FirstOf(s) \in s /\ RestOf(s) \in SUBSET T /\ RestOf(s) # T
        BY <3>2 DEF FirstOf, RestOf
      <4>2. sum(RestOf(s)) = Tally(f, RestOf(s))[RestOf(s)]
        BY <2>1, <4>1
      <4>3. g[RestOf(s)] = sum(RestOf(s)) /\ g[s] = sum(s)
        BY <4>1
      <4>4. sum(s) = f[FirstOf(s)] + Tally(f, RestOf(s))[RestOf(s)]
        BY <3>2
      <4> HIDE DEF g, sum
      <4> QED  BY <3>2, <4>2, <4>3, <4>4
    <3> QED  BY <3>1, <3>2
  <2> QED  BY <2>2 DEF Tally
<1>2. G = SUBSET S
  <2>1. G \in SUBSET SUBSET S
    OBVIOUS
  <2>2. \A s \in SUBSET S : (\A t \in SUBSET s : t # s => t \in G) => s \in G
    BY <1>1
  <2> HIDE DEF G
  <2> QED  BY <2>1, <2>2, SubsetInduction
<1> QED  BY <1>2

LEMMA SumUnfolds ==
    ASSUME NEW f, NEW S, IsFiniteSet(S)
    PROVE  /\ S = {} => SumOf(f, S) = 0
           /\ S # {} => /\ SumOf(f, S) = f[FirstOf(S)] + SumOf(f, RestOf(S))
                        /\ FirstOf(S) \in S /\ RestOf(S) \in SUBSET S /\ RestOf(S) # S
<1>1. IsTally(Tally(f, S), f, S) /\ (RestOf(S) \in SUBSET S => IsTally(Tally(f, RestOf(S)), f, RestOf(S)))
  BY TallyExists
<1>2. CASE S = {}
  BY <1>1, <1>2, TallyUnfolds, SumIsTally
<1>3. CASE S # {}
  <2>1. /\ Tally(f, S)[S] = f[FirstOf(S)] + Tally(f, S)[RestOf(S)]
        /\ FirstOf(S) \in S /\ RestOf(S) \in SUBSET S /\ RestOf(S) # S
    BY <1>1, <1>3, TallyUnfolds
  <2>2. Tally(f, S)[RestOf(S)] = Tally(f, RestOf(S))[RestOf(S)]
    BY <1>1, <2>1, TalliesAgree
  <2> QED  BY <1>3, <2>1, <2>2, SumIsTally
<1> QED  BY <1>2, <1>3

Integral(f, S) == \A x \in S : f[x] \in Int

\* The order in which the elements are taken does not matter.
LEMMA SumWithout ==
    ASSUME NEW f, NEW S, IsFiniteSet(S), Integral(f, S)
    PROVE  /\ SumOf(f, S) \in Int
           /\ \A x \in S : SumOf(f, S) = f[x] + SumOf(f, S \ {x})
<1> DEFINE G == {s \in SUBSET S :
                    /\ SumOf(f, s) \in Int
                    /\ \A x \in s : SumOf(f, s) = f[x] + SumOf(f, s \ {x})}
<1>1. ASSUME NEW s \in SUBSET S, \A t \in SUBSET s : t # s => t \in G
      PROVE  s \in G
  <2>1. IsFiniteSet(s)
    BY FS_Subset
  <2>2. CASE s = {}
    <3>1. SumOf(f, s) = 0
      BY <2>1, <2>2, SumUnfolds
    <3> QED  BY <2>2, <3>1
  <2>3. CASE s # {}
    <3> PICK first : first = FirstOf(s)
      OBVIOUS
    <3>1. SumOf(f, s) = f[first] + SumOf(f, s \ {first}) /\ first \in s
      BY <2>1, <2>3, SumUnfolds DEF RestOf
    <3>2. s \ {first} \in G /\ SumOf(f, s \ {first}) \in Int
      BY <1>1, <3>1
    <3>3. SumOf(f, s) \in Int /\ f[first] \in Int
      BY <3>1, <3>2 DEF Integral
    <3>4. ASSUME NEW x \in s
          PROVE  SumOf(f, s) = f[x] + SumOf(f, s \ {x})
      <4>1. CASE x = first
        BY <3>1, <4>1
      <4>2. CASE x # first
        <5> PICK u : u = (s \ {first}) \ {x}
          OBVIOUS
        <5>1. s \ {x} \in G /\ first \in s \ {x} /\ x \in s \ {first}
          BY <1>1, <3>1, <4>2
        <5>2. u \in G /\ u = (s \ {x}) \ {first}
          BY <1>1, <3>1, <4>2
        <5>3. SumOf(f, s \ {first}) = f[x] + SumOf(f, u)
          BY <3>2, <5>1
        <5>4. SumOf(f, s \ {x}) = f[first] + SumOf(f, u)
          BY <5>1, <5>2
        <5>5. f[x] \in Int /\ SumOf(f, u) \in Int
          BY <5>2 DEF Integral
        <5> QED  BY <3>1, <3>3, <5>3, <5>4, <5>5
      <4> QED  BY <4>1, <4>2
    <3> QED  BY <3>3, <3>4
  <2> QED  BY <2>2, <2>3
<1>2. G = SUBSET S
  <2>1. G \in SUBSET SUBSET S
    OBVIOUS
  <2>2. \A s \in SUBSET S : (\A t \in SUBSET s : t # s => t \in G) => s \in G
    BY <1>1
  <2> HIDE DEF G
  <2> QED  BY <2>1, <2>2, SubsetInduction
<1> QED  BY <1>2

\* Sums add up element by element.
LEMMA SumPlus ==
    ASSUME NEW S, IsFiniteSet(S), NEW f, NEW g, NEW h, Integral(f, S), Integral(g, S),
           \A x \in S : h[x] = f[x] + g[x]
    PROVE  SumOf(h, S) = SumOf(f, S) + SumOf(g, S)
<1>1. Integral(h, S)
  BY DEF Integral
<1> DEFINE G == {s \in SUBSET S : SumOf(h, s) = SumOf(f, s) + SumOf(g, s)}
<1>2. ASSUME NEW s \in SUBSET S, \A t \in SUBSET s : t # s => t \in G
      PROVE  s \in G
  <2>1. IsFiniteSet(s) /\ Integral(f, s) /\ Integral(g, s) /\ Integral(h, s)
    BY <1>1, FS_Subset DEF Integral
  <2>2. CASE s = {}
    <3>1. SumOf(f, s) = 0
      BY <2>1, <2>2, SumUnfolds
    <3>2. SumOf(g, s) = 0
      BY <2>1, <2>2, SumUnfolds
    <3>3. SumOf(h, s) = 0
      BY <2>1, <2>2, SumUnfolds
    <3> QED  BY <3>1, <3>2, <3>3
  <2>3. ASSUME NEW x \in s PROVE s \in G
    <3> PICK t : t = s \ {x}
      OBVIOUS
    <3>1. SumOf(h, t) = SumOf(f, t) + SumOf(g, t) /\ t \in SUBSET s
      BY <1>2, <2>3
    <3>2. IsFiniteSet(t) /\ Integral(f, t) /\ Integral(g, t)
      BY <2>1, <3>1, FS_Subset DEF Integral
    <3>3. SumOf(f, t) \in Int /\ SumOf(f, s) = f[x] + SumOf(f, t)
      BY <2>1, <3>2, SumWithout
    <3>4. SumOf(g, t) \in Int /\ SumOf(g, s) = g[x] + SumOf(g, t)
      BY <2>1, <3>2, SumWithout
    <3>5. SumOf(h, s) = h[x] + SumOf(h, t)
      BY <2>1, SumWithout
    <3>6. f[x] \in Int /\ g[x] \in Int /\ h[x] = f[x] + g[x]
      BY DEF Integral
    <3> QED  BY <3>1, <3>3, <3>4, <3>5, <3>6
  <2> QED  BY <2>2, <2>3
<1>3. G = SUBSET S
  <2>1. G \in SUBSET SUBSET S
    OBVIOUS
  <2>2. \A s \in SUBSET S : (\A t \in SUBSET s : t # s => t \in G) => s \in G
    BY <1>2
  <2> HIDE DEF G
  <2> QED  BY <2>1, <2>2, SubsetInduction
<1> QED  BY <1>3

LEMMA SumOfZeros ==
    ASSUME NEW S, IsFiniteSet(S), NEW f, \A x \in S : f[x] = 0
    PROVE  SumOf(f, S) = 0
<1>1. Integral(f, S)
  BY DEF Integral
<1>2. SumOf(f, S) = SumOf(f, S) + SumOf(f, S)
  BY <1>1, SumPlus
<1>3. PICK n \in Int : n = SumOf(f, S)
  BY <1>1, SumWithout
<1>4. n = n + n => n = 0
  OBVIOUS
<1> QED  BY <1>2, <1>3, <1>4

LEMMA SumSame ==
    ASSUME NEW S, IsFiniteSet(S), NEW f, NEW h, Integral(f, S), \A x \in S : h[x] = f[x]
    PROVE  SumOf(h, S) = SumOf(f, S)
<1> PICK z : z = [x \in S |-> 0]
  OBVIOUS
<1>1. Integral(z, S) /\ SumOf(z, S) = 0
  BY SumOfZeros DEF Integral
<1>2. \A x \in S : h[x] = f[x] + z[x]
  BY DEF Integral
<1>3. SumOf(h, S) = SumOf(f, S) + SumOf(z, S)
  BY <1>1, <1>2, SumPlus
<1>4. SumOf(f, S) \in Int
  BY SumWithout
<1> QED  BY <1>1, <1>3, <1>4

\* What changes in one place changes the sum by as much.
LEMMA SumChange ==
    ASSUME NEW S, IsFiniteSet(S), NEW f, NEW h, Integral(f, S), NEW e \in S, h[e] \in Int,
           \A x \in S \ {e} : h[x] = f[x]
    PROVE  SumOf(h, S) = SumOf(f, S) + (h[e] - f[e])
<1>1. Integral(h, S) /\ Integral(f, S \ {e}) /\ IsFiniteSet(S \ {e})
  BY FS_Subset DEF Integral
<1>2. SumOf(h, S) = h[e] + SumOf(h, S \ {e})
  BY <1>1, SumWithout
<1>3. SumOf(f, S) = f[e] + SumOf(f, S \ {e})
  BY SumWithout
<1>4. SumOf(h, S \ {e}) = SumOf(f, S \ {e})
  BY <1>1, SumSame
<1>5. SumOf(f, S \ {e}) \in Int /\ f[e] \in Int
  BY <1>1, SumWithout DEF Integral
<1> QED  BY <1>2, <1>3, <1>4, <1>5

\* What no element exceeds, the sum exceeds no more often than there are elements.
LEMMA SumBound ==
    ASSUME NEW S, IsFiniteSet(S), NEW f, Integral(f, S), NEW b \in Int, \A x \in S : f[x] <= b
    PROVE  SumOf(f, S) <= Cardinality(S) * b
<1> DEFINE G == {s \in SUBSET S : SumOf(f, s) <= Cardinality(s) * b}
<1>1. ASSUME NEW s \in SUBSET S, \A t \in SUBSET s : t # s => t \in G
      PROVE  s \in G
  <2>1. IsFiniteSet(s) /\ Integral(f, s)
    BY FS_Subset DEF Integral
  <2>2. CASE s = {}
    <3>1. SumOf(f, s) = 0 /\ Cardinality(s) = 0
      BY <2>1, <2>2, SumUnfolds, FS_EmptySet
    <3> QED  BY <3>1
  <2>3. ASSUME NEW x \in s PROVE s \in G
    <3> PICK t : t = s \ {x}
      OBVIOUS
    <3>1. SumOf(f, t) <= Cardinality(t) * b
      BY <1>1, <2>3
    <3>2. IsFiniteSet(t) /\ Integral(f, t)
      BY <2>1, FS_Subset DEF Integral
    <3>3. SumOf(f, t) \in Int /\ SumOf(f, s) = f[x] + SumOf(f, t)
      BY <2>1, <3>2, SumWithout
    <3> PICK n \in Nat : n = Cardinality(t)
      BY <3>2, FS_CardinalityType
    <3>4. Cardinality(s) = n + 1
      <4>1. Cardinality(s \ {x}) = Cardinality(s) - 1
        BY <2>1, FS_RemoveElement
      <4>2. PICK m \in Nat : m = Cardinality(s)
        BY <2>1, FS_CardinalityType
      <4> QED  BY <4>1, <4>2
    <3>5. f[x] \in Int /\ f[x] <= b
      BY DEF Integral
    <3>6. (n + 1) * b = n * b + b /\ n * b \in Int
      OBVIOUS
    <3> QED  BY <3>1, <3>3, <3>4, <3>5, <3>6
  <2> QED  BY <2>2, <2>3
<1>2. G = SUBSET S
  <2>1. G \in SUBSET SUBSET S
    OBVIOUS
  <2>2. \A s \in SUBSET S : (\A t \in SUBSET s : t # s => t \in G) => s \in G
    BY <1>1
  <2> HIDE DEF G
  <2> QED  BY <2>1, <2>2, SubsetInduction
<1> QED  BY <1>2

\* A finite set that a relation puts in order has a first element.
LEMMA FirstInOrder ==
    ASSUME NEW S, IsFiniteSet(S), S # {}, NEW R,
           \A x, y \in S : x # y => (<<x, y>> \in R \/ <<y, x>> \in R),
           \A x, y, z \in S : <<x, y>> \in R /\ <<y, z>> \in R => <<x, z>> \in R
    PROVE  \E x \in S : \A y \in S : y # x => <<x, y>> \in R
<1> DEFINE G == {s \in SUBSET S :
                    s # {} => \E x \in s : \A y \in s : y # x => <<x, y>> \in R}
<1>1. ASSUME NEW s \in SUBSET S, \A t \in SUBSET s : t # s => t \in G
      PROVE  s \in G
  <2> SUFFICES ASSUME NEW e \in s
               PROVE  \E x \in s : \A y \in s : y # x => <<x, y>> \in R
    OBVIOUS
  <2>1. CASE s \ {e} = {}
    BY <2>1
  <2>2. CASE s \ {e} # {}
    <3>1. s \ {e} \in G
      BY <1>1, ZenonT(40)
    <3>2. PICK x \in s \ {e} : \A y \in s \ {e} : y # x => <<x, y>> \in R
      BY <2>2, <3>1
    <3>3. CASE <<x, e>> \in R
      BY <3>2, <3>3
    <3>4. CASE <<e, x>> \in R
      <4>1. ASSUME NEW y \in s, y # e PROVE <<e, y>> \in R
        BY <3>2, <3>4, <4>1
      <4> QED  BY <4>1
    <3> QED  BY <3>2, <3>3, <3>4
  <2> QED  BY <2>1, <2>2
<1>2. G = SUBSET S
  <2>1. G \in SUBSET SUBSET S
    OBVIOUS
  <2>2. \A s \in SUBSET S : (\A t \in SUBSET s : t # s => t \in G) => s \in G
    BY <1>1
  <2> HIDE DEF G
  <2> QED  BY <2>1, <2>2, SubsetInduction
<1> QED  BY <1>2

LEMMA SumOfNats ==
    ASSUME NEW S, IsFiniteSet(S), NEW f, \A x \in S : f[x] \in Nat
    PROVE  SumOf(f, S) \in Nat
<1> DEFINE G == {s \in SUBSET S : SumOf(f, s) \in Nat}
<1>1. ASSUME NEW s \in SUBSET S, \A t \in SUBSET s : t # s => t \in G
      PROVE  s \in G
  <2>1. IsFiniteSet(s)
    BY FS_Subset
  <2>2. CASE s = {}
    <3>1. SumOf(f, s) = 0
      BY <2>1, <2>2, SumUnfolds
    <3> QED  BY <3>1
  <2>3. CASE s # {}
    <3>1. /\ SumOf(f, s) = f[FirstOf(s)] + SumOf(f, RestOf(s))
          /\ FirstOf(s) \in s /\ RestOf(s) \in SUBSET s /\ RestOf(s) # s
      BY <2>1, <2>3, SumUnfolds
    <3>2. SumOf(f, RestOf(s)) \in Nat /\ f[FirstOf(s)] \in Nat
      BY <1>1, <3>1
    <3> QED  BY <3>1, <3>2
  <2> QED  BY <2>2, <2>3
<1>2. G = SUBSET S
  <2>1. G \in SUBSET SUBSET S
    OBVIOUS
  <2>2. \A s \in SUBSET S : (\A t \in SUBSET s : t # s => t \in G) => s \in G
    BY <1>1
  <2> HIDE DEF G
  <2> QED  BY <2>1, <2>2, SubsetInduction
<1> QED  BY <1>2

\* A finite set of integers that is not empty has a largest element.
LEMMA MaxOfSet ==
    ASSUME NEW S \in SUBSET Int, IsFiniteSet(S), S # {}
    PROVE  Max(S) \in S /\ \A x \in S : x <= Max(S)
<1>r. PICK R : R = {e \in S \X S : e[1] >= e[2]}
  OBVIOUS
<1>1. \A x, y \in S : <<x, y>> \in R <=> x >= y
  BY <1>r
<1>2. \A x, y \in S : x # y => (<<x, y>> \in R \/ <<y, x>> \in R)
  BY <1>1
<1>3. \A x, y, z \in S : <<x, y>> \in R /\ <<y, z>> \in R => <<x, z>> \in R
  BY <1>1
<1>4. \E x \in S : \A y \in S : x >= y
  <2>1. PICK x \in S : \A y \in S : y # x => <<x, y>> \in R
    BY <1>2, <1>3, FirstInOrder, ZenonT(40)
  <2>2. \A y \in S : x >= y
    <3> SUFFICES ASSUME NEW y \in S PROVE x >= y
      OBVIOUS
    <3>1. CASE y = x
      BY <3>1
    <3>2. CASE y # x
      BY <1>1, <2>1, <3>2
    <3> QED  BY <3>1, <3>2
  <2> QED  BY <2>2
<1>5. Max(S) \in S /\ \A y \in S : Max(S) >= y
  BY <1>4, Zenon DEF Max
<1> QED  BY <1>5

-----------------------------------------------------------------------------
(* The invariant behind the books *)

\* No row is locked by two calls.
LocksApart ==
    \A p, q \in Callers : p # q => draft[p].locks \cap draft[q].locks = {}

\* The balances that a call has read.
ReadsSound(p) ==
    LET s == seen[p]
    IN  /\ s.econ >= 0 /\ s.econTo >= 0
        /\ DOMAIN s.gov \subseteq Departments /\ \A d \in DOMAIN s.gov : s.gov[d] >= 0
        /\ at[p] = "grant" => s.gov[call[p].from] >= s.econ

\* Whoever has written a balance has locked its row, and leaves no debt.
WritesSound(p) ==
    LET w == draft[p]
    IN  /\ DOMAIN w.gov \subseteq Departments /\ \A d \in DOMAIN w.gov : w.gov[d] >= 0
        /\ \A a \in Accounts :
              /\ ledger[a] + w.ledger[a] >= 0
              /\ w.ledger[a] # 0 => LedgerRow(a) \in w.locks

\* What a call wrote adds up to what it minted and granted.
AddsUp(p) ==
    LET w == draft[p]
    IN  /\ w.adjusted \in Int
        /\ SumOf(w.ledger, Accounts) =
              w.adjusted + IF call[p].op = "issue" THEN w.moved ELSE 0

\* What it paid is the amount asked for, from the payment on.
PaysAmount(p) ==
    LET c == call[p]
        w == draft[p]
    IN  /\ c.op = "welfare" => w.moved = IF at[p] \in {"govFrom", "commit"} THEN c.amount ELSE 0
        /\ c.op = "issue" => w.moved = IF at[p] \in {"govTo", "commit"} THEN c.amount ELSE 0

HasPayer(p) ==
    call[p].op = "auto" /\ at[p] \in {"acquire", "pay", "govFrom"} =>
        todo[p] \in Seq([dept: Departments, amount: Int]) /\ todo[p] # <<>>

MoneyShape(p) ==
    ReadsSound(p) /\ WritesSound(p) /\ AddsUp(p) /\ PaysAmount(p) /\ HasPayer(p)

\* An issuance that has passed the limit and is not recorded yet.
Pending(p) == call[p].op = "issue" /\ at[p] \in {"permit", "read", "mint", "govTo", "commit"}
Owed == [p \in Callers |-> IF Pending(p) THEN call[p].amount ELSE 0]
Largest == Max({n \in {c.amount : c \in Calls} : n <= MaxIssuance} \cup {0})

IssuancesBounded ==
    MaxIssuance > 0 =>
        /\ \A p \in Callers : Pending(p) => call[p].amount <= MaxIssuance
        /\ recorded["issue"] + SumOf(Owed, Callers)
              <= MaxIssuance + (Cardinality(Callers) - 1) * Largest

Tables ==
    /\ ledger \in [Accounts -> Nat] /\ gov \in [Departments -> Nat]
    /\ recorded \in [Recorded -> Nat] /\ moved \in [Recorded -> Nat] /\ adjusted \in Int

BInv ==
    /\ Tables /\ at \in [Callers -> Steps] /\ Free >= 0
    /\ LocksApart /\ \A p \in Callers : MoneyShape(p)
    /\ PointsAccountedFor /\ BackedRecords /\ IssuancesBounded

-----------------------------------------------------------------------------
(* What a step of p does to the sums *)

LEMMA FiniteImage ==
    ASSUME NEW S, IsFiniteSet(S), NEW f, NEW T, T = {f[x] : x \in S}
    PROVE  IsFiniteSet(T)
<1>g. PICK g : g = [x \in S |-> f[x]]
  OBVIOUS
<1>1. g \in Surjection(S, T)
  BY <1>g DEF Surjection
<1> QED  BY <1>1, FS_Surjection

LEMMA AllFinite ==
    IsFiniteSet(Callers) /\ IsFiniteSet(Departments) /\ IsFiniteSet(Accounts) /\ IsFiniteSet(Calls)
<1>1. IsFiniteSet(Callers) /\ IsFiniteSet(Calls) /\ IsFiniteSet(Users)
  BY AccountsAssumption, CallsAssumption
<1>2. IsFiniteSet(Departments)
  <2>1. DepartmentOrder \in Seq(Departments)
    BY AccountsAssumption
  <2>2. Len(DepartmentOrder) \in Nat /\ DOMAIN DepartmentOrder = 1..Len(DepartmentOrder)
    BY <2>1
  <2>3. IsFiniteSet(DOMAIN DepartmentOrder)
    BY <2>2, FS_Interval
  <2>4. Departments = {DepartmentOrder[i] : i \in DOMAIN DepartmentOrder}
    BY DEF Departments, Range
  <2> QED  BY <2>3, <2>4, FiniteImage
<1>3. IsFiniteSet(Accounts)
  BY <1>1, <1>2, FS_Union DEF Accounts
<1> QED  BY <1>1, <1>2, <1>3

\* The connections that a call holds at a statement.
Holds(step) ==
    IF step \in {"idle", "plan", "acquire"} THEN 0 ELSE IF step = "payout" THEN 2 ELSE 1

LEMMA FreeAfter ==
    ASSUME NEW p \in Callers, Free >= 0,
           \A q \in Callers \ {p} : at'[q] = at[q],
           Holds(at'[p]) <= Holds(at[p]) \/ (Free > 0 /\ Holds(at'[p]) <= Holds(at[p]) + 1)
    PROVE  Free' >= 0
<1>h. PICK h : h = Held
  OBVIOUS
<1>k. PICK k : k = Held'
  OBVIOUS
<1>1. \A q \in Callers : h[q] = Holds(at[q]) /\ k[q] = Holds(at'[q])
  BY <1>h, <1>k DEF Held, Holds
<1>2. \A q \in Callers : h[q] \in Nat /\ k[q] \in Nat
  BY <1>1 DEF Holds
<1>3. Integral(h, Callers) /\ k[p] \in Int /\ \A q \in Callers \ {p} : k[q] = h[q]
  BY <1>1, <1>2 DEF Integral
<1>4. SumOf(k, Callers) = SumOf(h, Callers) + (k[p] - h[p])
  BY <1>3, AllFinite, SumChange
<1>5. SumOf(h, Callers) \in Int
  BY <1>3, AllFinite, SumWithout
<1>6. Free = Connections - SumOf(h, Callers)
  BY <1>h DEF Free
<1>7. Free' = Connections - SumOf(k, Callers)
  <2>1. Free' = Connections - SumOf(Held', Callers)
    BY DEF Free
  <2> QED  BY <1>k, <2>1
<1>8. k[p] <= h[p] \/ (Free > 0 /\ k[p] <= h[p] + 1)
  BY <1>1
<1>9. Connections \in Int /\ k[p] \in Int /\ h[p] \in Int
  BY <1>2, TreasuryBoundsAssumption
<1> QED  BY <1>4, <1>5, <1>6, <1>7, <1>8, <1>9

\* No pending issuance exceeds the largest one that the limit allows.
LEMMA LargestBounds ==
    /\ Largest \in Nat /\ Largest <= MaxIssuance
    /\ \A c \in Calls : c.amount <= MaxIssuance => c.amount <= Largest
<1>s. PICK S : S = {n \in {c.amount : c \in Calls} : n <= MaxIssuance} \cup {0}
  OBVIOUS
<1>1. \A c \in Calls : c.amount \in Nat
  BY CallsAreKnown
<1>2. S \in SUBSET Nat /\ 0 \in S
  BY <1>1, <1>s
<1>3. IsFiniteSet(S)
  <2>1. IsFiniteSet({c.amount : c \in Calls})
    <3>g. PICK g : g = [c \in Calls |-> c.amount]
      OBVIOUS
    <3>1. {c.amount : c \in Calls} = {g[c] : c \in Calls}
      BY <3>g
    <3>2. IsFiniteSet({g[c] : c \in Calls})
      BY AllFinite, FiniteImage
    <3> QED  BY <3>1, <3>2
  <2>2. IsFiniteSet({n \in {c.amount : c \in Calls} : n <= MaxIssuance})
    BY <2>1, FS_Subset
  <2>3. IsFiniteSet({0})
    BY FS_Singleton
  <2> QED  BY <1>s, <2>2, <2>3, FS_Union
<1>4. Max(S) \in S /\ \A x \in S : x <= Max(S)
  <2>1. S \in SUBSET Int /\ S # {}
    BY <1>2
  <2> QED  BY <1>3, <2>1, MaxOfSet
<1>5. Largest = Max(S)
  BY <1>s DEF Largest
<1>6. \A c \in Calls : c.amount <= MaxIssuance => c.amount \in S
  BY <1>s
<1>7. \A n \in S : n <= MaxIssuance
  BY <1>s, TreasuryBoundsAssumption
<1> QED  BY <1>2, <1>4, <1>5, <1>6, <1>7

-----------------------------------------------------------------------------
(* The frame of a step that leaves the tables *)

LEMMA MoneyIsLocal ==
    ASSUME NEW q, MoneyShape(q),
           at'[q] = at[q], call'[q] = call[q], seen'[q] = seen[q], draft'[q] = draft[q],
           todo'[q] = todo[q],
           \A a \in Accounts :
               ledger'[a] = ledger[a] \/ (draft[q].ledger[a] = 0 /\ ledger'[a] >= 0 /\ ledger'[a] \in Int)
    PROVE  MoneyShape(q)'
<1>1. ReadsSound(q)'
  BY DEF MoneyShape, ReadsSound
<1>2. WritesSound(q)'
  BY DEF MoneyShape, WritesSound
<1>3. AddsUp(q)'
  BY DEF MoneyShape, AddsUp
<1>4. PaysAmount(q)'
  BY DEF MoneyShape, PaysAmount
<1>5. HasPayer(q)'
  BY DEF MoneyShape, HasPayer
<1> QED  BY <1>1, <1>2, <1>3, <1>4, <1>5 DEF MoneyShape

LEMMA LocksStayApart ==
    ASSUME LocksApart, NEW p \in Callers, OthersKept(p),
           \A q \in Callers \ {p} : draft[q].locks \cap draft'[p].locks = {}
    PROVE  LocksApart'
<1> SUFFICES ASSUME NEW q \in Callers, NEW r \in Callers, q # r
             PROVE  draft'[q].locks \cap draft'[r].locks = {}
  BY DEF LocksApart
<1>1. CASE q # p /\ r # p
  BY <1>1 DEF LocksApart, OthersKept
<1>2. CASE q = p
  BY <1>2 DEF OthersKept
<1>3. CASE r = p
  BY <1>3 DEF OthersKept
<1> QED  BY <1>1, <1>2, <1>3

\* What is owed to the records after a step of p.
LEMMA OwedAfter ==
    ASSUME NEW p \in Callers, \A q \in Callers : Pending(q) => call[q].amount \in Nat,
           \A q \in Callers \ {p} : at'[q] = at[q] /\ call'[q] = call[q],
           Pending(p)' => call'[p].amount \in Nat
    PROVE  /\ SumOf(Owed, Callers) \in Nat
           /\ ~Pending(p)' => SumOf(Owed', Callers) =
                                 SumOf(Owed, Callers) - IF Pending(p) THEN call[p].amount ELSE 0
           /\ Pending(p) /\ Pending(p)' /\ call'[p] = call[p] =>
                 SumOf(Owed', Callers) = SumOf(Owed, Callers)
           /\ \A b \in Nat : Pending(p)' /\ (\A q \in Callers \ {p} : Owed[q] <= b) =>
                 SumOf(Owed', Callers) <= call'[p].amount + (Cardinality(Callers) - 1) * b
<1>h. PICK h : h = Owed
  OBVIOUS
<1>k. PICK k : k = Owed'
  OBVIOUS
<1>1. \A q \in Callers : h[q] = IF Pending(q) THEN call[q].amount ELSE 0
  BY <1>h DEF Owed
<1>2. \A q \in Callers \ {p} : k[q] = h[q]
  BY <1>h, <1>k DEF Owed, Pending
<1>3. k[p] = IF Pending(p)' THEN call'[p].amount ELSE 0
  BY <1>k DEF Owed
<1>4. (\A q \in Callers : h[q] \in Nat) /\ k[p] \in Nat
  BY <1>1, <1>3
<1>5. Integral(h, Callers) /\ Integral(k, Callers) /\ k[p] \in Int /\ IsFiniteSet(Callers)
  BY <1>2, <1>4, AllFinite DEF Integral
<1>6. SumOf(h, Callers) \in Nat
  BY <1>4, <1>5, SumOfNats
<1>7. SumOf(k, Callers) = SumOf(h, Callers) + (k[p] - h[p])
  BY <1>2, <1>5, SumChange
<1>8. ASSUME NEW b \in Nat, \A q \in Callers \ {p} : h[q] <= b
      PROVE  SumOf(k, Callers) <= k[p] + (Cardinality(Callers) - 1) * b
  <2>1. SumOf(k, Callers) = k[p] + SumOf(k, Callers \ {p})
    BY <1>5, SumWithout
  <2>2. IsFiniteSet(Callers \ {p}) /\ Cardinality(Callers \ {p}) = Cardinality(Callers) - 1
    BY <1>5, FS_RemoveElement
  <2>3. Integral(k, Callers \ {p}) /\ \A q \in Callers \ {p} : k[q] <= b
    BY <1>2, <1>5, <1>8 DEF Integral
  <2>4. SumOf(k, Callers \ {p}) <= Cardinality(Callers \ {p}) * b
    BY <2>2, <2>3, SumBound
  <2>5. PICK n \in Int : n = SumOf(k, Callers \ {p})
    BY <2>2, <2>3, SumWithout
  <2>6. PICK m \in Int : m = (Cardinality(Callers) - 1) * b
    <3>1. Cardinality(Callers) - 1 \in Int
      BY <1>5, FS_CardinalityType
    <3> QED  BY <3>1
  <2> QED  BY <1>4, <2>1, <2>2, <2>4, <2>5, <2>6
<1>9. k[p] \in Nat /\ h[p] \in Nat
  BY <1>4
<1>10. ~Pending(p)' => SumOf(k, Callers) =
                          SumOf(h, Callers) - IF Pending(p) THEN call[p].amount ELSE 0
  BY <1>1, <1>3, <1>6, <1>7, <1>9
<1>11. Pending(p) /\ Pending(p)' /\ call'[p] = call[p] => SumOf(k, Callers) = SumOf(h, Callers)
  BY <1>1, <1>3, <1>6, <1>7, <1>9
<1> QED  BY <1>h, <1>k, <1>3, <1>6, <1>8, <1>10, <1>11

LEMMA PendingAmounts ==
    ASSUME GInv, NEW q \in Callers, Pending(q)
    PROVE  call[q] \in Calls /\ call[q].amount \in Nat
<1>1. call[q] \in Calls
  BY DEF GInv, Shape, CallShape, Pending
<1> QED  BY <1>1, CallsAreKnown

\* A step of p takes no row and no connection of another call, and an issuance
\* passes the limit before it is pending.
LEMMA StepBounds ==
    ASSUME GInv, BInv, NEW p \in Callers, OthersKept(p),
           recorded'["issue"] = recorded["issue"], at'[p] \in Steps,
           Holds(at'[p]) <= Holds(at[p]) \/ (Free > 0 /\ Holds(at'[p]) <= Holds(at[p]) + 1),
           \A q \in Callers \ {p} : draft[q].locks \cap draft'[p].locks = {},
           Pending(p)' =>
              \/ Pending(p) /\ call'[p] = call[p]
              \/ /\ call'[p] \in Calls
                 /\ MaxIssuance > 0 => recorded["issue"] + call'[p].amount <= MaxIssuance
    PROVE  at' \in [Callers -> Steps] /\ Free' >= 0 /\ LocksApart' /\ IssuancesBounded'
<1>2. \A q \in Callers \ {p} : at'[q] = at[q] /\ call'[q] = call[q]
  BY DEF OthersKept
<1>3. at' \in [Callers -> Steps]
  BY <1>2 DEF BInv, OthersKept
<1>4. Free' >= 0
  BY <1>2, FreeAfter DEF BInv
<1>5. LocksApart'
  BY LocksStayApart DEF BInv
<1>7. IssuancesBounded'
  <2> SUFFICES ASSUME MaxIssuance > 0
               PROVE  /\ \A q \in Callers : Pending(q)' => call'[q].amount <= MaxIssuance
                      /\ recorded["issue"] + SumOf(Owed', Callers)
                            <= MaxIssuance + (Cardinality(Callers) - 1) * Largest
    BY DEF IssuancesBounded, Largest
  <2>1. /\ \A q \in Callers : Pending(q) => call[q].amount <= MaxIssuance
        /\ recorded["issue"] + SumOf(Owed, Callers)
              <= MaxIssuance + (Cardinality(Callers) - 1) * Largest
    BY DEF BInv, IssuancesBounded
  <2>2. \A q \in Callers : Pending(q) => call[q] \in Calls /\ call[q].amount \in Nat
    BY PendingAmounts
  <2>3. Pending(p)' => call'[p].amount \in Nat
    BY <2>2, CallsAreKnown
  <2>4. \A q \in Callers \ {p} : Pending(q)' <=> Pending(q)
    BY <1>2 DEF Pending
  <2>5. MaxIssuance \in Nat /\ recorded["issue"] \in Nat /\ Largest \in Nat
    BY TreasuryBoundsAssumption, LargestBounds DEF BInv, Tables, Recorded
  <2>6. \A q \in Callers : Pending(q)' => call'[q].amount <= MaxIssuance
    BY <1>2, <2>1, <2>3, <2>4, <2>5
  <2>7. PICK slack \in Int : slack = (Cardinality(Callers) - 1) * Largest
    <3>1. Cardinality(Callers) - 1 \in Int
      BY AllFinite, FS_CardinalityType
    <3> QED  BY <2>5, <3>1
  <2>8. SumOf(Owed, Callers) \in Nat
    BY <1>2, <2>2, <2>3, OwedAfter
  <2>9. CASE ~Pending(p)'
    <3>1. SumOf(Owed', Callers) = SumOf(Owed, Callers) - IF Pending(p) THEN call[p].amount ELSE 0
      BY <1>2, <2>2, <2>3, <2>9, OwedAfter
    <3> QED  BY <2>1, <2>2, <2>5, <2>6, <2>7, <2>8, <3>1
  <2>10. CASE Pending(p)' /\ Pending(p) /\ call'[p] = call[p]
    <3>1. SumOf(Owed', Callers) = SumOf(Owed, Callers)
      BY <1>2, <2>2, <2>3, <2>10, OwedAfter
    <3> QED  BY <2>1, <2>6, <3>1
  <2>11. CASE Pending(p)' /\ recorded["issue"] + call'[p].amount <= MaxIssuance
    <3>1. \A q \in Callers \ {p} : Owed[q] <= Largest
      BY <2>1, <2>2, <2>5, LargestBounds DEF Owed
    <3>2. SumOf(Owed', Callers) <= call'[p].amount + (Cardinality(Callers) - 1) * Largest
      BY <1>2, <2>2, <2>3, <2>5, <2>11, <3>1, OwedAfter
    <3>3. SumOf(Owed', Callers) \in Int
      <4>1. \A q \in Callers : Owed'[q] \in Nat
        BY <1>2, <2>2, <2>3, <2>4 DEF Owed
      <4> QED  BY <4>1, AllFinite, SumOfNats
    <3>4. call'[p].amount \in Nat
      BY <2>3, <2>11
    <3> QED  BY <2>5, <2>6, <2>7, <2>11, <3>2, <3>3, <3>4
  <2> QED  BY <2>9, <2>10, <2>11
<1> QED  BY <1>3, <1>4, <1>5, <1>7

\* If it writes no table and what it drafts is sound, it keeps the books.
LEMMA BooksFrame ==
    ASSUME GInv, BInv, NEW p \in Callers, OthersKept(p),
           UNCHANGED <<ledger, gov, recorded, moved, adjusted>>, at'[p] \in Steps,
           Holds(at'[p]) <= Holds(at[p]) \/ (Free > 0 /\ Holds(at'[p]) <= Holds(at[p]) + 1),
           \A q \in Callers \ {p} : draft[q].locks \cap draft'[p].locks = {},
           MoneyShape(p)',
           Pending(p)' =>
              \/ Pending(p) /\ call'[p] = call[p]
              \/ /\ call'[p] \in Calls
                 /\ MaxIssuance > 0 => recorded["issue"] + call'[p].amount <= MaxIssuance
    PROVE  BInv'
<1>1. Tables' /\ PointsAccountedFor' /\ BackedRecords'
  BY DEF BInv, Tables, PointsAccountedFor, BackedRecords
<1>2. at' \in [Callers -> Steps] /\ Free' >= 0 /\ LocksApart' /\ IssuancesBounded'
  BY StepBounds
<1>3. \A q \in Callers : MoneyShape(q)'
  <2> SUFFICES ASSUME NEW q \in Callers, q # p PROVE MoneyShape(q)'
    OBVIOUS
  <2>1. MoneyShape(q)
    BY DEF BInv
  <2>2. /\ at'[q] = at[q] /\ call'[q] = call[q] /\ seen'[q] = seen[q]
        /\ draft'[q] = draft[q] /\ todo'[q] = todo[q]
    BY DEF OthersKept
  <2> QED  BY <2>1, <2>2, MoneyIsLocal
<1> QED  BY <1>1, <1>2, <1>3 DEF BInv

-----------------------------------------------------------------------------
(* Statements that only read *)

\* What is known of a call and the balances it sees.
LEMMA BooksOf ==
    ASSUME GInv, BInv, NEW p \in Callers
    PROVE  /\ CallShape(p) /\ MoneyShape(p) /\ SeenShape(seen[p]) /\ DraftShape(draft[p])
           /\ ledger \in [Accounts -> Nat] /\ gov \in [Departments -> Nat]
           /\ Departments \subseteq Accounts /\ at[p] \in Steps
           /\ \A a \in Accounts : View(p, a) = ledger[a] + draft[p].ledger[a] /\ View(p, a) \in Nat
           /\ at[p] # "idle" => call[p] \in Calls
<1>1. CallShape(p) /\ MoneyShape(p) /\ ledger \in [Accounts -> Nat] /\ gov \in [Departments -> Nat]
      /\ at[p] \in Steps
  BY DEF BInv, Tables, GInv, Shape
<1>2. SeenShape(seen[p]) /\ DraftShape(draft[p]) /\ (at[p] # "idle" => call[p] \in Calls)
  BY <1>1 DEF CallShape
<1>3. \A a \in Accounts : View(p, a) = ledger[a] + draft[p].ledger[a] /\ View(p, a) \in Nat
  BY <1>1, <1>2 DEF MoneyShape, WritesSound, View, DraftShape
<1> QED  BY <1>1, <1>2, <1>3 DEF Accounts

LEMMA QuietBooks ==
    ASSUME GInv, BInv, NEW p \in Callers, at[p] # "idle",
           NEW step \in Steps, step \notin {"idle", "plan"}, Goto(p, step),
           NEW s, See(p, s), NEW l, Plans(p, l),
           UNCHANGED <<ledger, gov, recorded, moved, adjusted, call, draft, overlapped, clean>>,
           Holds(step) <= Holds(at[p]) \/ (Free > 0 /\ Holds(step) <= Holds(at[p]) + 1),
           s.econ >= 0 /\ s.econTo >= 0,
           DOMAIN s.gov \subseteq Departments /\ \A d \in DOMAIN s.gov : s.gov[d] >= 0,
           step = "grant" => s.gov[call[p].from] >= s.econ,
           call[p].op = "welfare" =>
              (step \in {"govFrom", "commit"} <=> at[p] \in {"govFrom", "commit"}),
           call[p].op = "issue" =>
              (step \in {"govTo", "commit"} <=> at[p] \in {"govTo", "commit"}),
           call[p].op = "auto" /\ step \in {"acquire", "pay", "govFrom"} =>
              l \in Seq([dept: Departments, amount: Int]) /\ l # <<>>,
           call[p].op = "issue" /\ step \in {"permit", "read", "mint", "govTo", "commit"} =>
              \/ at[p] \in {"permit", "read", "mint", "govTo", "commit"}
              \/ MaxIssuance > 0 => recorded["issue"] + call[p].amount <= MaxIssuance
    PROVE  BInv'
<1>1. /\ OthersKept(p) /\ at'[p] = step /\ seen'[p] = s /\ draft'[p] = draft[p] /\ todo'[p] = l
      /\ call'[p] = call[p]
  <2>1. Draft(p, draft[p]) /\ ledger' \in [Accounts -> Int]
    BY Unchanged
  <2>2. \A d \in Departments : d \notin Touches(call[p]) => ledger'[d] = ledger[d]
    OBVIOUS
  <2>3. /\ Working(p) /\ at'[p] = step /\ seen'[p] = s /\ draft'[p] = draft[p] /\ todo'[p] = l
        /\ call'[p] = call[p]
    BY <2>1, <2>2, StepFrame
  <2> QED  BY <2>3 DEF Working
<1>2. MoneyShape(p)'
  <2>1. MoneyShape(p)
    BY BooksOf
  <2>2. ReadsSound(p)'
    BY <1>1 DEF ReadsSound
  <2>3. WritesSound(p)'
    BY <1>1, <2>1 DEF MoneyShape, WritesSound
  <2>4. AddsUp(p)'
    BY <1>1, <2>1 DEF MoneyShape, AddsUp
  <2>5. PaysAmount(p)'
    BY <1>1, <2>1 DEF MoneyShape, PaysAmount
  <2>6. HasPayer(p)'
    BY <1>1 DEF HasPayer
  <2> QED  BY <2>2, <2>3, <2>4, <2>5, <2>6 DEF MoneyShape
<1>3. Pending(p)' => \/ Pending(p) /\ call'[p] = call[p]
                     \/ /\ call'[p] \in Calls
                        /\ MaxIssuance > 0 => recorded["issue"] + call'[p].amount <= MaxIssuance
  BY <1>1, BooksOf DEF Pending
<1>4. \A q \in Callers \ {p} : draft[q].locks \cap draft'[p].locks = {}
  BY <1>1 DEF BInv, LocksApart
<1>5. /\ UNCHANGED <<ledger, gov, recorded, moved, adjusted>> /\ at'[p] \in Steps
      /\ Holds(at'[p]) <= Holds(at[p]) \/ (Free > 0 /\ Holds(at'[p]) <= Holds(at[p]) + 1)
  BY <1>1
<1> QED  BY <1>1, <1>2, <1>3, <1>4, <1>5, BooksFrame

LEMMA AcquireBooks ==
    ASSUME GInv, BInv, NEW p \in Callers, Acquire(p)
    PROVE  BInv'
<1> PICK step : step = IF call[p].op = "auto" THEN "pay"
                       ELSE IF call[p].op = "issue" THEN "sum" ELSE "read"
  OBVIOUS
<1>1. /\ at[p] = "acquire" /\ Goto(p, step) /\ Free > 0
      /\ UNCHANGED <<ledger, gov, recorded, moved, adjusted, call, seen, draft, todo, overlapped, clean>>
  BY DEF Acquire, tables, private, history
<1>2. MoneyShape(p) /\ See(p, seen[p]) /\ Plans(p, todo[p])
  BY <1>1, BooksOf, Unchanged
<1>3. step \in {"pay", "sum", "read"} /\ (call[p].op # "auto" => step # "pay")
  OBVIOUS
<1>4. step \in Steps /\ Holds(step) = 1 /\ Holds(at[p]) = 0
  BY <1>1, <1>3 DEF Steps, Holds
<1>5. ReadsSound(p) /\ HasPayer(p)
  BY <1>2 DEF MoneyShape
<1>6. call[p].op = "issue" => step = "sum"
  OBVIOUS
<1>7. /\ seen[p].econ >= 0 /\ seen[p].econTo >= 0
      /\ DOMAIN seen[p].gov \subseteq Departments /\ \A d \in DOMAIN seen[p].gov : seen[p].gov[d] >= 0
  BY <1>5 DEF ReadsSound
<1>8. call[p].op = "auto" => todo[p] \in Seq([dept: Departments, amount: Int]) /\ todo[p] # <<>>
  BY <1>1, <1>5 DEF HasPayer
<1>9. step \notin {"idle", "plan", "grant", "govFrom", "commit", "govTo"} /\ at[p] # "idle"
      /\ at[p] \notin {"govFrom", "commit", "govTo"}
  BY <1>1, <1>3
<1>10. UNCHANGED <<ledger, gov, recorded, moved, adjusted, call, draft, overlapped, clean>>
  BY <1>1
<1>11. Holds(step) <= Holds(at[p]) \/ (Free > 0 /\ Holds(step) <= Holds(at[p]) + 1)
  BY <1>1, <1>4
<1>12. call[p].op = "issue" => step \notin {"permit", "read", "mint", "govTo", "commit"}
  BY <1>6
<1>13. step \in Steps /\ Goto(p, step) /\ See(p, seen[p]) /\ Plans(p, todo[p])
  BY <1>1, <1>2, <1>4
<1> QED  BY <1>7, <1>8, <1>9, <1>10, <1>11, <1>12, <1>13, QuietBooks

\* An issuance passes the limit.
LEMMA SumBooks ==
    ASSUME GInv, BInv, NEW p \in Callers, call[p].op = "issue",
           NEW step \in {"permit", "read"}, Goto(p, step),
           at[p] \in {"sum", "permit"},
           at[p] = "sum" => (MaxIssuance > 0 => recorded["issue"] + call[p].amount <= MaxIssuance),
           UNCHANGED <<ledger, gov, recorded, moved, adjusted, call, seen, draft, todo, overlapped, clean>>
    PROVE  BInv'
<1>2. MoneyShape(p) /\ See(p, seen[p]) /\ Plans(p, todo[p])
  BY BooksOf, Unchanged
<1>4. step \in Steps /\ Holds(step) = 1 /\ Holds(at[p]) = 1
  BY DEF Steps, Holds
<1>5. ReadsSound(p)
  BY <1>2 DEF MoneyShape
<1> QED  BY <1>2, <1>4, <1>5, QuietBooks DEF ReadsSound

LEMMA ReadBooks ==
    ASSUME GInv, BInv, NEW p \in Callers, call[p].op # "auto", Read(p)
    PROVE  BInv'
<1> PICK c : c = call[p]
  OBVIOUS
<1>g. PICK g : g = [d \in Touches(c) |-> gov[d]]
  OBVIOUS
<1>s. PICK s : s = [seen[p] EXCEPT !.gov = g]
  OBVIOUS
<1> PICK step : step = IF c.op = "ensure" THEN "snapshot"
                       ELSE IF c.op = "tax" THEN "borrow"
                       ELSE IF c.op = "issue" THEN "mint" ELSE "econ"
  OBVIOUS
<1>a. PICK all : all = [i \in DOMAIN DepartmentOrder |-> [dept |-> DepartmentOrder[i], amount |-> 0]]
  OBVIOUS
<1>l. PICK l : l = IF c.op = "ensure" THEN all ELSE todo[p]
  OBVIOUS
<1>1. /\ See(p, s) /\ Goto(p, step) /\ Plans(p, l) /\ at[p] = "read"
      /\ UNCHANGED <<ledger, gov, recorded, moved, adjusted, call, draft, overlapped, clean>>
  <2>1. (IF c.op = "ensure" THEN Departments ELSE {c.from, c.to} \cap Departments) = Touches(c)
    BY DEF Touches
  <2>2. c.op # "ensure" => todo' = todo
    BY DEF Read
  <2>3. c.op = "ensure" => todo' = [todo EXCEPT ![p] = all]
    BY <1>a DEF Read
  <2> QED  BY <1>g, <1>s, <1>l, <2>1, <2>2, <2>3, Unchanged DEF Read, tables, history, Plans
<1>2. /\ MoneyShape(p) /\ SeenShape(seen[p]) /\ gov \in [Departments -> Nat]
  BY BooksOf
<1>3. s = [gov |-> g, econ |-> seen[p].econ, econTo |-> seen[p].econTo, paid |-> seen[p].paid]
  BY <1>2, <1>s DEF SeenShape
<1>4. Touches(c) \subseteq Departments
  BY TouchesDepartments
<1>5. s.econ >= 0 /\ s.econTo >= 0 /\ s.gov = g
  BY <1>2, <1>3 DEF MoneyShape, ReadsSound
<1>6. DOMAIN s.gov \subseteq Departments /\ \A d \in DOMAIN s.gov : s.gov[d] >= 0
  BY <1>2, <1>4, <1>5, <1>g
<1>7. step \in {"snapshot", "borrow", "mint", "econ"}
  OBVIOUS
<1>8. step \in Steps /\ Holds(step) = 1 /\ Holds(at[p]) = 1
  BY <1>1, <1>7 DEF Steps, Holds
<1> QED  BY <1>1, <1>5, <1>6, <1>7, <1>8, QuietBooks

LEMMA EconBooks ==
    ASSUME GInv, BInv, NEW p \in Callers, call[p].op \in {"welfare", "touser", "between"}, Econ(p)
    PROVE  BInv'
<1> PICK c : c = call[p]
  OBVIOUS
<1>e. PICK econ : econ = View(p, c.from)
  OBVIOUS
<1>s. PICK s : s = [seen[p] EXCEPT !.econ = econ]
  OBVIOUS
<1>n. PICK needs \in BOOLEAN : needs <=> (seen[p].gov[c.from] >= c.amount /\ econ < c.amount)
  <2>1. CASE seen[p].gov[c.from] >= c.amount /\ econ < c.amount
    BY <2>1
  <2>2. CASE ~(seen[p].gov[c.from] >= c.amount /\ econ < c.amount)
    BY <2>2
  <2> QED  BY <2>1, <2>2
<1> PICK step : step = IF needs THEN "grant"
                       ELSE IF c.op = "between" THEN "econTo" ELSE "pay"
  OBVIOUS
<1>1. /\ See(p, s) /\ Goto(p, step) /\ at[p] = "econ"
      /\ UNCHANGED <<ledger, gov, recorded, moved, adjusted, call, draft, todo, overlapped, clean>>
  BY <1>e, <1>s, <1>n DEF Econ, tables, history
<1>2. /\ MoneyShape(p) /\ SeenShape(seen[p]) /\ c \in Calls /\ CallShape(p) /\ Departments \subseteq Accounts
      /\ Plans(p, todo[p]) /\ \A a \in Accounts : View(p, a) \in Nat
  BY <1>1, BooksOf, Unchanged
<1>3. s = [gov |-> seen[p].gov, econ |-> econ, econTo |-> seen[p].econTo, paid |-> seen[p].paid]
  BY <1>2, <1>s DEF SeenShape
<1>4. c.from \in Departments /\ c.from \in Touches(c) /\ c.amount \in Nat
  BY <1>2, CallsAreKnown, TouchesDepartments
<1>5. seen[p].gov[c.from] \in Int
  BY <1>1, <1>2, <1>4 DEF CallShape, SeenShape, Before
<1>6. s.econ >= 0 /\ s.econTo >= 0 /\ s.gov = seen[p].gov /\ s.econ = econ /\ econ \in Nat
  BY <1>2, <1>3, <1>4, <1>e DEF MoneyShape, ReadsSound
<1>7. DOMAIN s.gov \subseteq Departments /\ \A d \in DOMAIN s.gov : s.gov[d] >= 0
  BY <1>2, <1>6 DEF MoneyShape, ReadsSound
<1>8. step = "grant" => s.gov[c.from] >= s.econ
  BY <1>4, <1>5, <1>6, <1>n
<1>9. step \in {"grant", "econTo", "pay"}
  OBVIOUS
<1>10. step \in Steps /\ Holds(step) = 1 /\ Holds(at[p]) = 1
  BY <1>1, <1>9 DEF Steps, Holds
<1> QED  BY <1>1, <1>2, <1>6, <1>7, <1>8, <1>9, <1>10, QuietBooks

LEMMA EconToBooks ==
    ASSUME GInv, BInv, NEW p \in Callers, call[p].op = "between", EconTo(p)
    PROVE  BInv'
<1>e. PICK econ : econ = View(p, call[p].to)
  OBVIOUS
<1>s. PICK s : s = [seen[p] EXCEPT !.econTo = econ]
  OBVIOUS
<1>1. /\ See(p, s) /\ Goto(p, "borrow") /\ at[p] = "econTo"
      /\ UNCHANGED <<ledger, gov, recorded, moved, adjusted, call, draft, todo, overlapped, clean>>
  BY <1>e, <1>s DEF EconTo, tables, history
<1>2. /\ MoneyShape(p) /\ SeenShape(seen[p]) /\ call[p] \in Calls /\ Departments \subseteq Accounts
      /\ Plans(p, todo[p]) /\ \A a \in Accounts : View(p, a) \in Nat
  BY <1>1, BooksOf, Unchanged
<1>3. s = [gov |-> seen[p].gov, econ |-> seen[p].econ, econTo |-> econ, paid |-> seen[p].paid]
  BY <1>2, <1>s DEF SeenShape
<1>4. call[p].to \in Departments
  BY <1>2, CallsAreKnown
<1>5. s.econ >= 0 /\ s.econTo >= 0 /\ s.gov = seen[p].gov
  BY <1>2, <1>3, <1>4, <1>e DEF MoneyShape, ReadsSound
<1>6. DOMAIN s.gov \subseteq Departments /\ \A d \in DOMAIN s.gov : s.gov[d] >= 0
  BY <1>2, <1>5 DEF MoneyShape, ReadsSound
<1>7. "borrow" \in Steps /\ Holds("borrow") = 1 /\ Holds(at[p]) = 1
  BY <1>1 DEF Steps, Holds
<1> QED  BY <1>1, <1>2, <1>5, <1>6, <1>7, QuietBooks

\* A step that reads nothing either.
LEMMA GoesOn ==
    ASSUME GInv, BInv, NEW p \in Callers, at[p] # "idle",
           NEW step \in Steps \ {"idle", "plan", "grant"}, Goto(p, step), NEW l, Plans(p, l),
           UNCHANGED <<ledger, gov, recorded, moved, adjusted, call, seen, draft, overlapped, clean>>,
           Holds(step) <= Holds(at[p]) \/ (Free > 0 /\ Holds(step) <= Holds(at[p]) + 1),
           call[p].op \notin {"welfare", "issue"},
           call[p].op = "auto" /\ step \in {"acquire", "pay", "govFrom"} =>
              l \in Seq([dept: Departments, amount: Int]) /\ l # <<>>
    PROVE  BInv'
<1>1. MoneyShape(p) /\ See(p, seen[p])
  BY BooksOf, Unchanged
<1>2. /\ seen[p].econ >= 0 /\ seen[p].econTo >= 0
      /\ DOMAIN seen[p].gov \subseteq Departments /\ \A d \in DOMAIN seen[p].gov : seen[p].gov[d] >= 0
  BY <1>1 DEF MoneyShape, ReadsSound
<1> QED  BY <1>1, <1>2, QuietBooks

LEMMA BorrowBooks ==
    ASSUME GInv, BInv, NEW p \in Callers, call[p].op \in {"between", "tax"}, Borrow(p)
    PROVE  BInv'
<1>1. /\ at[p] = "borrow" /\ Free > 0 /\ Goto(p, "payout")
      /\ UNCHANGED <<ledger, gov, recorded, moved, adjusted, call, seen, draft, todo, overlapped, clean>>
  BY DEF Borrow, tables, private, history
<1>2. "payout" \in Steps \ {"idle", "plan", "grant"} /\ Holds("payout") = 2 /\ Holds("borrow") = 1
  BY DEF Steps, Holds
<1>3. Plans(p, todo[p])
  BY <1>1, Unchanged
<1> QED  BY <1>1, <1>2, <1>3, GoesOn

LEMMA AssumedBooks ==
    ASSUME GInv, BInv, NEW p \in Callers, at[p] = "pay", call[p].op = "touser", Goto(p, "govFrom"),
           UNCHANGED <<ledger, gov, recorded, moved, adjusted, call, seen, draft, todo, overlapped, clean>>
    PROVE  BInv'
<1>2. "govFrom" \in Steps \ {"idle", "plan", "grant"} /\ Holds("govFrom") = 1 /\ Holds("pay") = 1
  BY DEF Steps, Holds
<1>3. Plans(p, todo[p])
  BY Unchanged
<1> QED  BY <1>2, <1>3, GoesOn

LEMMA SkipBooks ==
    ASSUME GInv, BInv, NEW p \in Callers, call[p].op = "auto", at[p] = "pay", NextDepartment(p, "pay"),
           UNCHANGED <<ledger, gov, recorded, moved, adjusted, call, seen, draft, overlapped, clean>>
    PROVE  BInv'
<1> PICK l : l = Tail(todo[p])
  OBVIOUS
<1> PICK step : step = IF l = <<>> THEN "commit" ELSE "pay"
  OBVIOUS
<1>R. PICK R : R = [dept: Departments, amount: Int]
  OBVIOUS
<1>1. Goto(p, step) /\ Plans(p, l) /\ step \in {"commit", "pay"}
  BY DEF NextDepartment, Plans
<1>2. todo[p] \in Seq(R) /\ todo[p] # <<>>
  BY <1>R, BooksOf DEF MoneyShape, HasPayer
<1>3. l \in Seq(R)
  BY <1>2, RestOfList
<1>4. step = "pay" => l # <<>>
  OBVIOUS
<1>5. step \in Steps \ {"idle", "plan", "grant"} /\ Holds(step) = 1 /\ Holds("pay") = 1
  BY <1>1 DEF Steps, Holds
<1>6. l \in Seq([dept: Departments, amount: Int])
  BY <1>R, <1>3
<1>7. step \in {"acquire", "pay", "govFrom"} => l # <<>>
  BY <1>1, <1>4
<1>8. Goto(p, step) /\ Plans(p, l) /\ Holds(step) <= Holds(at[p]) /\ at[p] # "idle"
  BY <1>1, <1>5
<1> QED  BY <1>5, <1>6, <1>7, <1>8, GoesOn

LEMMA SnapshotBooks ==
    ASSUME GInv, BInv, NEW p \in Callers, call[p].op = "ensure", Snapshot(p)
    PROVE  BInv'
<1> PICK dept : dept = Head(todo[p]).dept
  OBVIOUS
<1>s. PICK s : s = [seen[p] EXCEPT !.econ = ledger[dept]]
  OBVIOUS
<1> PICK same \in BOOLEAN : same <=> ledger[dept] = seen[p].gov[dept]
  <2>1. CASE ledger[dept] = seen[p].gov[dept]
    BY <2>1
  <2>2. CASE ~(ledger[dept] = seen[p].gov[dept])
    BY <2>2
  <2> QED  BY <2>1, <2>2
<1> PICK l : l = IF same THEN Tail(todo[p]) ELSE todo[p]
  OBVIOUS
<1> PICK step : step = IF same THEN (IF Tail(todo[p]) = <<>> THEN "commit" ELSE "snapshot")
                       ELSE "align"
  OBVIOUS
<1>1. /\ MoneyShape(p) /\ CallShape(p) /\ at[p] = "snapshot" /\ SeenShape(seen[p])
      /\ Departments \subseteq Accounts /\ ledger \in [Accounts -> Nat]
  BY BooksOf DEF Snapshot
<1>2. dept \in Departments
  BY <1>1, HeadIsDepartment
<1>3. /\ See(p, s) /\ Goto(p, step) /\ Plans(p, l)
      /\ UNCHANGED <<ledger, gov, recorded, moved, adjusted, call, draft, overlapped, clean>>
  <2>1. See(p, s)
        /\ UNCHANGED <<ledger, gov, recorded, moved, adjusted, call, draft, overlapped, clean>>
    BY <1>s DEF Snapshot, tables, history
  <2>2. CASE same
    <3>1. NextDepartment(p, "snapshot")
      BY <2>2 DEF Snapshot
    <3> QED  BY <2>1, <2>2, <3>1 DEF NextDepartment, Plans
  <2>3. CASE ~same
    <3>1. Goto(p, "align") /\ todo' = todo
      BY <2>3 DEF Snapshot
    <3> QED  BY <2>1, <2>3, <3>1, Unchanged
  <2> QED  BY <2>2, <2>3
<1>4. step \in {"commit", "snapshot", "align"}
  OBVIOUS
<1>5. s = [gov |-> seen[p].gov, econ |-> ledger[dept], econTo |-> seen[p].econTo, paid |-> seen[p].paid]
  BY <1>1, <1>s DEF SeenShape
<1>6. s.econ >= 0 /\ s.econTo >= 0 /\ s.gov = seen[p].gov
  BY <1>1, <1>2, <1>5 DEF MoneyShape, ReadsSound
<1>7. DOMAIN s.gov \subseteq Departments /\ \A d \in DOMAIN s.gov : s.gov[d] >= 0
  BY <1>1, <1>6 DEF MoneyShape, ReadsSound
<1>8. step \in Steps /\ Holds(step) = 1 /\ Holds(at[p]) = 1
  BY <1>1, <1>4 DEF Steps, Holds
<1>9. /\ step \notin {"idle", "plan", "grant"} /\ at[p] # "idle" /\ Holds(step) <= Holds(at[p])
      /\ call[p].op \notin {"welfare", "issue", "auto"}
  BY <1>1, <1>4, <1>8
<1> QED  BY <1>3, <1>6, <1>7, <1>8, <1>9, QuietBooks

-----------------------------------------------------------------------------
(* Statements that draft a balance *)

\* The row a statement writes is locked by nobody else; the connection is its own.
LEMMA WriteBooks ==
    ASSUME GInv, BInv, NEW p \in Callers, at[p] # "idle",
           NEW step \in {"econTo", "pay", "govFrom", "govTo", "commit", "snapshot"}, Goto(p, step),
           at[p] \in {"grant", "pay", "mint", "govFrom", "govTo", "align"},
           NEW s, See(p, s), NEW w, Draft(p, w), NEW l, Plans(p, l),
           UNCHANGED <<ledger, gov, recorded, moved, adjusted, call, overlapped, clean>>,
           ~LockedByOthers(p, Wanted(p)), w.locks = draft[p].locks \cup Wanted(p),
           s.econ >= 0 /\ s.econTo >= 0,
           DOMAIN s.gov \subseteq Departments /\ \A d \in DOMAIN s.gov : s.gov[d] >= 0,
           DOMAIN w.gov \subseteq Departments /\ \A d \in DOMAIN w.gov : w.gov[d] >= 0,
           \A a \in Accounts :
               ledger[a] + w.ledger[a] >= 0 /\ (w.ledger[a] # 0 => LedgerRow(a) \in w.locks),
           w.adjusted \in Int,
           SumOf(w.ledger, Accounts) = w.adjusted + (IF call[p].op = "issue" THEN w.moved ELSE 0),
           call[p].op = "welfare" =>
               w.moved = (IF step \in {"govFrom", "commit"} THEN call[p].amount ELSE 0),
           call[p].op = "issue" =>
               w.moved = (IF step \in {"govTo", "commit"} THEN call[p].amount ELSE 0),
           call[p].op = "issue" => at[p] \in {"mint", "govTo"},
           call[p].op = "auto" /\ step \in {"pay", "govFrom"} =>
              l \in Seq([dept: Departments, amount: Int]) /\ l # <<>>
    PROVE  BInv'
<1>1. /\ OthersKept(p) /\ at'[p] = step /\ seen'[p] = s /\ draft'[p] = w /\ todo'[p] = l
      /\ call'[p] = call[p]
  <2>1. ledger' \in [Accounts -> Int]
    BY Unchanged
  <2>2. \A d \in Departments : d \notin Touches(call[p]) => ledger'[d] = ledger[d]
    OBVIOUS
  <2>3. /\ Working(p) /\ at'[p] = step /\ seen'[p] = s /\ draft'[p] = w /\ todo'[p] = l
        /\ call'[p] = call[p]
    BY <2>1, <2>2, StepFrame
  <2> QED  BY <2>3 DEF Working
<1>2. MoneyShape(p)'
  <2>2. ReadsSound(p)'
    BY <1>1 DEF ReadsSound
  <2>3. WritesSound(p)'
    BY <1>1 DEF WritesSound
  <2>4. AddsUp(p)'
    BY <1>1 DEF AddsUp
  <2>5. PaysAmount(p)'
    BY <1>1 DEF PaysAmount
  <2>6. HasPayer(p)'
    BY <1>1 DEF HasPayer
  <2> QED  BY <2>2, <2>3, <2>4, <2>5, <2>6 DEF MoneyShape
<1>3. Pending(p)' => Pending(p) /\ call'[p] = call[p]
  BY <1>1 DEF Pending
<1>4. \A q \in Callers \ {p} : draft[q].locks \cap draft'[p].locks = {}
  BY <1>1 DEF BInv, LocksApart, LockedByOthers
<1>5. /\ UNCHANGED <<ledger, gov, recorded, moved, adjusted>> /\ at'[p] \in Steps
      /\ Holds(at'[p]) <= Holds(at[p])
  BY <1>1 DEF Steps, Holds
<1> QED  BY <1>1, <1>2, <1>3, <1>4, <1>5, BooksFrame

\* A cached balance.
LEMMA CachedBooks ==
    ASSUME GInv, BInv, NEW p \in Callers,
           at[p] \in {"govFrom", "govTo", "align"}, NEW dept \in Departments, NEW n \in Nat,
           NEW step \in {"pay", "govTo", "commit", "snapshot"}, Goto(p, step),
           NEW w, w = Lock(p, SetGov(draft[p], dept, n)), Draft(p, w), NEW l, Plans(p, l),
           UNCHANGED <<ledger, gov, recorded, moved, adjusted, call, seen, overlapped, clean>>,
           ~LockedByOthers(p, Wanted(p)),
           call[p].op = "welfare" => at[p] = "govFrom" /\ step = "commit",
           call[p].op = "issue" => at[p] = "govTo" /\ step = "commit",
           call[p].op = "auto" /\ step = "pay" =>
              l \in Seq([dept: Departments, amount: Int]) /\ l # <<>>
    PROVE  BInv'
<1>1. MoneyShape(p) /\ DraftShape(draft[p]) /\ See(p, seen[p])
  BY BooksOf, Unchanged
<1>2. /\ w.ledger = draft[p].ledger /\ w.moved = draft[p].moved
      /\ w.adjusted = draft[p].adjusted /\ w.locks = draft[p].locks \cup Wanted(p)
      /\ DOMAIN w.gov = DOMAIN draft[p].gov \cup {dept}
      /\ \A d \in DOMAIN w.gov : w.gov[d] = IF d = dept THEN n ELSE draft[p].gov[d]
  BY <1>1, SetGovFields
<1>3. DOMAIN w.gov \subseteq Departments /\ \A d \in DOMAIN w.gov : w.gov[d] >= 0
  BY <1>1, <1>2 DEF MoneyShape, WritesSound
<1>4. \A a \in Accounts :
         ledger[a] + w.ledger[a] >= 0 /\ (w.ledger[a] # 0 => LedgerRow(a) \in w.locks)
  BY <1>1, <1>2 DEF MoneyShape, WritesSound
<1>5. /\ w.adjusted \in Int
      /\ SumOf(w.ledger, Accounts) = w.adjusted + (IF call[p].op = "issue" THEN w.moved ELSE 0)
  BY <1>1, <1>2 DEF MoneyShape, AddsUp
<1>6. /\ call[p].op = "welfare" =>
            w.moved = (IF step \in {"govFrom", "commit"} THEN call[p].amount ELSE 0)
      /\ call[p].op = "issue" =>
            w.moved = (IF step \in {"govTo", "commit"} THEN call[p].amount ELSE 0)
  BY <1>1, <1>2 DEF MoneyShape, PaysAmount
<1>7. /\ seen[p].econ >= 0 /\ seen[p].econTo >= 0
      /\ DOMAIN seen[p].gov \subseteq Departments /\ \A d \in DOMAIN seen[p].gov : seen[p].gov[d] >= 0
  BY <1>1 DEF MoneyShape, ReadsSound
<1> QED  BY <1>1, <1>2, <1>3, <1>4, <1>5, <1>6, <1>7, WriteBooks, ZenonT(40)

\* Balances of the ledger.
LEMMA BookedBooks ==
    ASSUME GInv, BInv, NEW p \in Callers,
           at[p] \in {"grant", "pay", "mint"}, NEW step \in {"econTo", "pay", "govFrom", "govTo"},
           Goto(p, step), NEW s, See(p, s), NEW b \in [Accounts -> Int], NEW m \in Nat, NEW k \in Int,
           NEW w, w = Lock(p, Booked(draft[p], b, m, k)), Draft(p, w),
           UNCHANGED <<ledger, gov, recorded, moved, adjusted, call, todo, overlapped, clean>>,
           ~LockedByOthers(p, Wanted(p)),
           s.econ >= 0 /\ s.econTo >= 0 /\ s.gov = seen[p].gov,
           \A a \in Accounts : b[a] = draft[p].ledger[a] \/ LedgerRow(a) \in Wanted(p),
           \A a \in Accounts : ledger[a] + b[a] >= 0,
           SumOf(b, Accounts) =
               SumOf(draft[p].ledger, Accounts) + k + (IF call[p].op = "issue" THEN m ELSE 0),
           call[p].op = "welfare" => m = (IF step = "govFrom" THEN call[p].amount ELSE 0),
           call[p].op = "issue" => at[p] = "mint" /\ step = "govTo" /\ m = call[p].amount,
           call[p].op = "auto" => at[p] = "pay"
    PROVE  BInv'
<1>1. MoneyShape(p) /\ DraftShape(draft[p]) /\ Plans(p, todo[p])
  BY BooksOf, Unchanged
<1>2. /\ w.ledger = b /\ w.moved = draft[p].moved + m /\ w.gov = draft[p].gov
      /\ w.adjusted = draft[p].adjusted + k /\ w.locks = draft[p].locks \cup Wanted(p)
  BY BookedFields
<1>3. DOMAIN w.gov \subseteq Departments /\ \A d \in DOMAIN w.gov : w.gov[d] >= 0
  BY <1>1, <1>2 DEF MoneyShape, WritesSound
<1>4. \A a \in Accounts :
         ledger[a] + w.ledger[a] >= 0 /\ (w.ledger[a] # 0 => LedgerRow(a) \in w.locks)
  BY <1>1, <1>2 DEF MoneyShape, WritesSound
<1>5. draft[p].adjusted \in Int /\ draft[p].moved \in Nat
      /\ SumOf(draft[p].ledger, Accounts) =
            draft[p].adjusted + IF call[p].op = "issue" THEN draft[p].moved ELSE 0
  BY <1>1 DEF MoneyShape, AddsUp, DraftShape
<1>6. /\ w.adjusted \in Int
      /\ SumOf(w.ledger, Accounts) = w.adjusted + (IF call[p].op = "issue" THEN w.moved ELSE 0)
  BY <1>2, <1>5
<1>7. /\ call[p].op = "welfare" => draft[p].moved = 0
      /\ call[p].op = "issue" => draft[p].moved = 0
  BY <1>1 DEF MoneyShape, PaysAmount
<1>8. /\ call[p].op = "welfare" =>
            w.moved = (IF step \in {"govFrom", "commit"} THEN call[p].amount ELSE 0)
      /\ call[p].op = "issue" =>
            w.moved = (IF step \in {"govTo", "commit"} THEN call[p].amount ELSE 0)
  BY <1>2, <1>7
<1>9. DOMAIN s.gov \subseteq Departments /\ \A d \in DOMAIN s.gov : s.gov[d] >= 0
  BY <1>1 DEF MoneyShape, ReadsSound
<1>10. call[p].op = "auto" => todo[p] \in Seq([dept: Departments, amount: Int]) /\ todo[p] # <<>>
  BY <1>1 DEF MoneyShape, HasPayer
<1> QED  BY <1>1, <1>2, <1>3, <1>4, <1>6, <1>8, <1>9, <1>10, WriteBooks, ZenonT(40)

\* One balance grows.
LEMMA SumGrows ==
    ASSUME NEW f \in [Accounts -> Int], NEW e \in Accounts, NEW n \in Int, NEW b,
           b[e] = f[e] + n, \A a \in Accounts \ {e} : b[a] = f[a]
    PROVE  SumOf(b, Accounts) = SumOf(f, Accounts) + n /\ SumOf(f, Accounts) \in Int
<1>1. Integral(f, Accounts) /\ f[e] \in Int /\ b[e] \in Int
  BY DEF Integral
<1>2. SumOf(b, Accounts) = SumOf(f, Accounts) + (b[e] - f[e])
  BY <1>1, AllFinite, SumChange
<1>3. SumOf(f, Accounts) \in Int
  BY <1>1, AllFinite, SumWithout
<1> QED  BY <1>1, <1>2, <1>3

\* A transfer takes nothing from the total and adds nothing to it.
LEMMA SumOfMoved ==
    ASSUME NEW f \in [Accounts -> Int], NEW from \in Accounts, NEW to \in Accounts, from # to,
           NEW n \in Int
    PROVE  /\ Moved(f, from, to, n) \in [Accounts -> Int]
           /\ \A a \in Accounts :
                 Moved(f, from, to, n)[a] =
                     IF a = to THEN f[a] + n ELSE IF a = from THEN f[a] - n ELSE f[a]
           /\ SumOf(Moved(f, from, to, n), Accounts) = SumOf(f, Accounts)
           /\ SumOf(f, Accounts) \in Int
<1>b. PICK b : b = Moved(f, from, to, n)
  OBVIOUS
<1>1. /\ b \in [Accounts -> Int]
      /\ \A a \in Accounts :
            b[a] = IF a = to THEN f[a] + n ELSE IF a = from THEN f[a] - n ELSE f[a]
  BY <1>b DEF Moved
<1>h. PICK h : h = [a \in Accounts |-> IF a = to THEN f[a] + n ELSE f[a]]
  OBVIOUS
<1>2. h \in [Accounts -> Int] /\ h[to] = f[to] + n /\ \A a \in Accounts \ {to} : h[a] = f[a]
  BY <1>h
<1>3. SumOf(h, Accounts) = SumOf(f, Accounts) + n /\ SumOf(f, Accounts) \in Int
  BY <1>2, SumGrows
<1>m. PICK m \in Int : m = -n
  OBVIOUS
<1>4. b[from] = h[from] + m /\ \A a \in Accounts \ {from} : b[a] = h[a]
  BY <1>1, <1>2, <1>m
<1>5. SumOf(b, Accounts) = SumOf(h, Accounts) + m
  BY <1>2, <1>4, SumGrows
<1> QED  BY <1>b, <1>1, <1>3, <1>5, <1>m

LEMMA GrantBooks ==
    ASSUME GInv, BInv, NEW p \in Callers, call[p].op \in {"welfare", "touser", "between"}, Grant(p)
    PROVE  BInv'
<1> PICK c : c = call[p]
  OBVIOUS
<1>d. PICK delta : delta = seen[p].gov[c.from] - seen[p].econ
  OBVIOUS
<1>f. PICK after : after = View(p, c.from) + delta
  OBVIOUS
<1>e. PICK econ : econ = IF after < c.amount THEN seen[p].gov[c.from] ELSE after
  OBVIOUS
<1>s. PICK s : s = [seen[p] EXCEPT !.econ = econ]
  OBVIOUS
<1>b. PICK b : b = [draft[p].ledger EXCEPT ![c.from] = @ + delta]
  OBVIOUS
<1>w. PICK w : w = Lock(p, Booked(draft[p], b, 0, delta))
  OBVIOUS
<1> PICK step : step = IF c.op = "between" THEN "econTo" ELSE "pay"
  OBVIOUS
<1>1. /\ See(p, s) /\ Draft(p, w) /\ Goto(p, step) /\ at[p] = "grant"
      /\ ~LockedByOthers(p, Wanted(p))
      /\ UNCHANGED <<ledger, gov, recorded, moved, adjusted, call, todo, overlapped, clean>>
  BY <1>d, <1>f, <1>e, <1>s, <1>b, <1>w DEF Grant, tables, history
<1>2. /\ CallShape(p) /\ MoneyShape(p) /\ SeenShape(seen[p]) /\ DraftShape(draft[p]) /\ c \in Calls
      /\ ledger \in [Accounts -> Nat] /\ Departments \subseteq Accounts
      /\ \A a \in Accounts : View(p, a) = ledger[a] + draft[p].ledger[a] /\ View(p, a) \in Nat
  BY <1>1, BooksOf
<1>3. c.from \in Departments /\ c.from \in Accounts /\ c.from \in Touches(c) /\ c.amount \in Nat
  BY <1>2, CallsAreKnown, TouchesDepartments
<1>4. /\ seen[p].gov[c.from] \in Nat /\ seen[p].econ \in Nat /\ seen[p].gov[c.from] >= seen[p].econ
      /\ seen[p].econTo >= 0
  <2>1. seen[p].gov[c.from] \in Int /\ seen[p].econ \in Int /\ c.from \in DOMAIN seen[p].gov
    BY <1>1, <1>2, <1>3 DEF CallShape, SeenShape, Before
  <2> QED  BY <1>1, <1>2, <2>1 DEF MoneyShape, ReadsSound
<1>5. delta \in Nat /\ View(p, c.from) \in Nat /\ econ \in Nat
  <2>1. delta \in Nat
    BY <1>4, <1>d
  <2>2. View(p, c.from) \in Nat
    BY <1>2, <1>3
  <2>3. after \in Nat
    BY <1>f, <2>1, <2>2
  <2> QED  BY <1>e, <1>4, <2>1, <2>2, <2>3
<1>6. draft[p].ledger \in [Accounts -> Int]
  BY <1>2 DEF DraftShape
<1>7. /\ b \in [Accounts -> Int] /\ b[c.from] = draft[p].ledger[c.from] + delta
      /\ \A a \in Accounts \ {c.from} : b[a] = draft[p].ledger[a]
      /\ SumOf(b, Accounts) = SumOf(draft[p].ledger, Accounts) + delta
      /\ SumOf(draft[p].ledger, Accounts) \in Int
  <2>1. /\ b \in [Accounts -> Int] /\ b[c.from] = draft[p].ledger[c.from] + delta
        /\ \A a \in Accounts \ {c.from} : b[a] = draft[p].ledger[a]
    BY <1>3, <1>5, <1>6, <1>b
  <2>f. PICK f \in [Accounts -> Int] : f = draft[p].ledger
    BY <1>6
  <2>d. PICK d \in Accounts : d = c.from
    BY <1>3
  <2>e. delta \in Int
    BY <1>5
  <2>2. b[d] = f[d] + delta /\ \A a \in Accounts \ {d} : b[a] = f[a]
    BY <2>1, <2>f, <2>d
  <2>3. SumOf(b, Accounts) = SumOf(f, Accounts) + delta /\ SumOf(f, Accounts) \in Int
    BY <2>2, <2>e, SumGrows
  <2> QED  BY <2>1, <2>3, <2>f
<1>8. Wanted(p) = {LedgerRow(c.from)}
  BY <1>1 DEF Wanted
<1>9. \A a \in Accounts : b[a] = draft[p].ledger[a] \/ LedgerRow(a) \in Wanted(p)
  BY <1>7, <1>8
<1>10. \A a \in Accounts : ledger[a] + b[a] >= 0
  <2> SUFFICES ASSUME NEW a \in Accounts PROVE ledger[a] + b[a] >= 0
    OBVIOUS
  <2>1. ledger[a] \in Nat /\ draft[p].ledger[a] \in Int /\ ledger[a] + draft[p].ledger[a] >= 0
    BY <1>2, <1>6
  <2> QED  BY <1>5, <1>7, <2>1
<1>11. s = [gov |-> seen[p].gov, econ |-> econ, econTo |-> seen[p].econTo, paid |-> seen[p].paid]
  BY <1>2, <1>s DEF SeenShape
<1>12. s.econ >= 0 /\ s.econTo >= 0 /\ s.gov = seen[p].gov
  BY <1>4, <1>5, <1>11
<1>13. step \in {"econTo", "pay"} /\ 0 \in Nat /\ delta \in Int
  BY <1>5
<1>14. SumOf(b, Accounts) =
           SumOf(draft[p].ledger, Accounts) + delta + (IF call[p].op = "issue" THEN 0 ELSE 0)
  BY <1>5, <1>7
<1> QED  BY <1>1, <1>7, <1>9, <1>10, <1>12, <1>13, <1>14, <1>w, BookedBooks

LEMMA PayBooks ==
    ASSUME GInv, BInv, NEW p \in Callers, call[p].op \in {"welfare", "touser", "auto"}, Pay(p)
    PROVE  BInv'
<1> PICK c : c = call[p]
  OBVIOUS
<1> PICK payer : payer = Payer(p)
  OBVIOUS
<1> PICK share : share = Share(p)
  OBVIOUS
<1>b. PICK b : b = Moved(draft[p].ledger, payer, c.to, share)
  OBVIOUS
<1>w. PICK w : w = Lock(p, Booked(draft[p], b, share, 0))
  OBVIOUS
<1>1. /\ Draft(p, w) /\ Goto(p, "govFrom") /\ at[p] = "pay" /\ ~LockedByOthers(p, Wanted(p))
      /\ payer # c.to /\ share \in Nat \ {0} /\ View(p, payer) >= share
      /\ UNCHANGED <<ledger, gov, recorded, moved, adjusted, call, seen, todo, overlapped, clean>>
  BY <1>b, <1>w DEF Pay, AtPay, Affordable, tables, history
<1>2. /\ MoneyShape(p) /\ DraftShape(draft[p]) /\ c \in Calls /\ See(p, seen[p])
      /\ ledger \in [Accounts -> Nat] /\ Departments \subseteq Accounts
      /\ \A a \in Accounts : View(p, a) = ledger[a] + draft[p].ledger[a] /\ View(p, a) \in Nat
  BY <1>1, BooksOf, Unchanged
<1>3. payer \in Accounts /\ c.to \in Accounts
  <2>1. CASE c.op = "auto"
    <3>R. PICK R : R = [dept: Departments, amount: Int]
      OBVIOUS
    <3>1. todo[p] \in Seq(R) /\ todo[p] # <<>>
      BY <1>1, <1>2, <2>1, <3>R DEF MoneyShape, HasPayer
    <3>2. Head(todo[p]) \in R
      BY <3>1, RestOfList
    <3> QED  BY <1>2, <2>1, <3>R, <3>2, CallsAreKnown DEF Payer
  <2>2. CASE c.op # "auto"
    BY <1>2, <2>2, CallsAreKnown DEF Payer
  <2> QED  BY <2>1, <2>2
<1>4. draft[p].ledger \in [Accounts -> Int]
  BY <1>2 DEF DraftShape
<1>5. /\ b \in [Accounts -> Int]
      /\ \A a \in Accounts :
            b[a] = IF a = c.to THEN draft[p].ledger[a] + share
                   ELSE IF a = payer THEN draft[p].ledger[a] - share ELSE draft[p].ledger[a]
      /\ SumOf(b, Accounts) = SumOf(draft[p].ledger, Accounts)
      /\ SumOf(draft[p].ledger, Accounts) \in Int
  <2>f. PICK f \in [Accounts -> Int] : f = draft[p].ledger
    BY <1>4
  <2>e. payer \in Accounts /\ c.to \in Accounts /\ payer # c.to /\ share \in Int
    BY <1>1, <1>3
  <2>1. b = Moved(f, payer, c.to, share)
    BY <1>b, <2>f
  <2>2. /\ b \in [Accounts -> Int]
        /\ \A a \in Accounts :
              b[a] = IF a = c.to THEN f[a] + share ELSE IF a = payer THEN f[a] - share ELSE f[a]
    BY <2>1, <2>e DEF Moved
  <2>3. SumOf(b, Accounts) = SumOf(f, Accounts) /\ SumOf(f, Accounts) \in Int
    BY <2>1, <2>e, SumOfMoved
  <2> QED  BY <2>2, <2>3, <2>f
<1>6. Wanted(p) = {LedgerRow(payer), LedgerRow(c.to)}
  BY <1>1 DEF Wanted, PayRows
<1>7. \A a \in Accounts : b[a] = draft[p].ledger[a] \/ LedgerRow(a) \in Wanted(p)
  BY <1>5, <1>6
<1>8. \A a \in Accounts : ledger[a] + b[a] >= 0
  <2> SUFFICES ASSUME NEW a \in Accounts PROVE ledger[a] + b[a] >= 0
    OBVIOUS
  <2>1. /\ ledger[a] \in Nat /\ draft[p].ledger[a] \in Int /\ ledger[a] + draft[p].ledger[a] >= 0
        /\ a = payer => ledger[a] + draft[p].ledger[a] >= share
    BY <1>1, <1>2, <1>4
  <2> QED  BY <1>1, <1>5, <2>1
<1>9. seen[p].econ >= 0 /\ seen[p].econTo >= 0
  BY <1>2 DEF MoneyShape, ReadsSound
<1>10. c.op = "welfare" => share = c.amount
  BY DEF Share
<1>11. SumOf(b, Accounts) =
           SumOf(draft[p].ledger, Accounts) + 0 + (IF call[p].op = "issue" THEN share ELSE 0)
  BY <1>5
<1> QED  BY <1>1, <1>2, <1>5, <1>7, <1>8, <1>9, <1>10, <1>11, <1>w, BookedBooks

LEMMA MintBooks ==
    ASSUME GInv, BInv, NEW p \in Callers, call[p].op = "issue", Mint(p)
    PROVE  BInv'
<1> PICK c : c = call[p]
  OBVIOUS
<1>b. PICK b : b = [draft[p].ledger EXCEPT ![Bank] = @ + c.amount]
  OBVIOUS
<1>w. PICK w : w = Lock(p, Booked(draft[p], b, c.amount, 0))
  OBVIOUS
<1>1. /\ Draft(p, w) /\ Goto(p, "govTo") /\ at[p] = "mint" /\ ~LockedByOthers(p, Wanted(p))
      /\ UNCHANGED <<ledger, gov, recorded, moved, adjusted, call, seen, todo, overlapped, clean>>
  BY <1>b, <1>w DEF Mint, tables, history
<1>2. /\ MoneyShape(p) /\ DraftShape(draft[p]) /\ c \in Calls /\ See(p, seen[p])
      /\ ledger \in [Accounts -> Nat] /\ Bank \in Accounts
      /\ \A a \in Accounts : View(p, a) = ledger[a] + draft[p].ledger[a] /\ View(p, a) \in Nat
  BY <1>1, BooksOf, Unchanged, AccountsAssumption
<1>3. c.amount \in Nat
  BY <1>2, CallsAreKnown
<1>4. draft[p].ledger \in [Accounts -> Int]
  BY <1>2 DEF DraftShape
<1>5. /\ b \in [Accounts -> Int] /\ b[Bank] = draft[p].ledger[Bank] + c.amount
      /\ \A a \in Accounts \ {Bank} : b[a] = draft[p].ledger[a]
      /\ SumOf(b, Accounts) = SumOf(draft[p].ledger, Accounts) + c.amount
      /\ SumOf(draft[p].ledger, Accounts) \in Int
  <2>1. /\ b \in [Accounts -> Int] /\ b[Bank] = draft[p].ledger[Bank] + c.amount
        /\ \A a \in Accounts \ {Bank} : b[a] = draft[p].ledger[a]
    BY <1>2, <1>3, <1>4, <1>b
  <2>f. PICK f \in [Accounts -> Int] : f = draft[p].ledger
    BY <1>4
  <2>e. Bank \in Accounts /\ c.amount \in Int
    BY <1>2, <1>3
  <2>2. b[Bank] = f[Bank] + c.amount /\ \A a \in Accounts \ {Bank} : b[a] = f[a]
    BY <2>1, <2>f
  <2>3. SumOf(b, Accounts) = SumOf(f, Accounts) + c.amount /\ SumOf(f, Accounts) \in Int
    BY <2>2, <2>e, SumGrows
  <2> QED  BY <2>1, <2>3, <2>f
<1>6. Wanted(p) = {LedgerRow(Bank)}
  BY <1>1 DEF Wanted
<1>7. \A a \in Accounts : b[a] = draft[p].ledger[a] \/ LedgerRow(a) \in Wanted(p)
  BY <1>5, <1>6
<1>8. \A a \in Accounts : ledger[a] + b[a] >= 0
  <2> SUFFICES ASSUME NEW a \in Accounts PROVE ledger[a] + b[a] >= 0
    OBVIOUS
  <2>1. ledger[a] \in Nat /\ draft[p].ledger[a] \in Int /\ ledger[a] + draft[p].ledger[a] >= 0
    BY <1>2, <1>4
  <2> QED  BY <1>3, <1>5, <2>1
<1>9. seen[p].econ >= 0 /\ seen[p].econTo >= 0
  BY <1>2 DEF MoneyShape, ReadsSound
<1>11. SumOf(b, Accounts) =
           SumOf(draft[p].ledger, Accounts) + 0 + (IF call[p].op = "issue" THEN c.amount ELSE 0)
  BY <1>3, <1>5
<1> QED  BY <1>1, <1>2, <1>3, <1>5, <1>7, <1>8, <1>9, <1>11, <1>w, BookedBooks, SMTT(30)

LEMMA GovFromBooks ==
    ASSUME GInv, BInv, NEW p \in Callers,
           call[p].op \in {"welfare", "touser", "between", "auto"}, GovFrom(p)
    PROVE  BInv'
<1> PICK c : c = call[p]
  OBVIOUS
<1> PICK dept : dept = Payer(p)
  OBVIOUS
<1>f. PICK left : left = IF seen[p].econ > c.amount THEN seen[p].econ - c.amount ELSE 0
  OBVIOUS
<1>b. PICK balance : balance = IF draft[p].moved > 0 THEN View(p, dept) ELSE left
  OBVIOUS
<1>w. PICK w : w = Lock(p, SetGov(draft[p], dept, balance))
  OBVIOUS
<1>l. PICK l : l = IF c.op = "auto" THEN Tail(todo[p]) ELSE todo[p]
  OBVIOUS
<1>p. PICK step : step = IF c.op = "auto" THEN (IF Tail(todo[p]) = <<>> THEN "commit" ELSE "pay")
                         ELSE IF c.op = "between" THEN "govTo" ELSE "commit"
  OBVIOUS
<1>1. /\ Draft(p, w) /\ Goto(p, step) /\ Plans(p, l) /\ at[p] = "govFrom"
      /\ ~LockedByOthers(p, Wanted(p))
      /\ UNCHANGED <<ledger, gov, recorded, moved, adjusted, call, seen, overlapped, clean>>
  <2>1. /\ Draft(p, w) /\ at[p] = "govFrom" /\ ~LockedByOthers(p, Wanted(p))
        /\ UNCHANGED <<ledger, gov, recorded, moved, adjusted, call, seen, overlapped, clean>>
    BY <1>f, <1>b, <1>w DEF GovFrom, tables, history
  <2>2. CASE c.op = "auto"
    <3>1. NextDepartment(p, "pay")
      BY <2>2 DEF GovFrom
    <3> QED  BY <1>l, <1>p, <2>1, <2>2, <3>1 DEF NextDepartment, Plans
  <2>3. CASE c.op # "auto"
    <3>1. Goto(p, IF c.op = "between" THEN "govTo" ELSE "commit") /\ todo' = todo
      BY <2>3 DEF GovFrom
    <3> QED  BY <1>l, <1>p, <2>1, <2>3, <3>1, Unchanged
  <2> QED  BY <2>2, <2>3
<1>2. /\ MoneyShape(p) /\ SeenShape(seen[p]) /\ c \in Calls /\ Departments \subseteq Accounts
      /\ \A a \in Accounts : View(p, a) \in Nat
  BY <1>1, BooksOf
<1>R. PICK R : R = [dept: Departments, amount: Int]
  OBVIOUS
<1>3. c.op = "auto" => todo[p] \in Seq(R) /\ Head(todo[p]) \in R /\ Tail(todo[p]) \in Seq(R)
  <2>1. c.op = "auto" => todo[p] \in Seq(R) /\ todo[p] # <<>>
    BY <1>1, <1>2, <1>R DEF MoneyShape, HasPayer
  <2> QED  BY <2>1, RestOfList
<1>4. dept \in Departments
  <2>1. CASE c.op = "auto"
    BY <1>R, <1>3, <2>1 DEF Payer
  <2>2. CASE c.op # "auto"
    BY <1>2, <2>2, CallsAreKnown DEF Payer
  <2> QED  BY <2>1, <2>2
<1>5. balance \in Nat
  <2>1. seen[p].econ \in Int /\ c.amount \in Nat
    BY <1>2, CallsAreKnown DEF SeenShape
  <2>2. left \in Nat
    BY <1>f, <2>1
  <2>3. View(p, dept) \in Nat
    BY <1>2, <1>4
  <2> QED  BY <1>b, <2>2, <2>3
<1>6. step \in {"pay", "govTo", "commit"} /\ (c.op = "welfare" => step = "commit")
  BY <1>p
<1>7. c.op = "auto" /\ step = "pay" => l \in Seq([dept: Departments, amount: Int]) /\ l # <<>>
  BY <1>l, <1>p, <1>3, <1>R
<1> QED  BY <1>1, <1>4, <1>5, <1>6, <1>7, <1>w, CachedBooks

LEMMA GovToBooks ==
    ASSUME GInv, BInv, NEW p \in Callers, call[p].op \in {"tax", "issue", "between"}, GovTo(p)
    PROVE  BInv'
<1> PICK c : c = call[p]
  OBVIOUS
<1>e. PICK base : base = IF c.op = "between" THEN seen[p].econTo ELSE seen[p].gov[c.to]
  OBVIOUS
<1>n. PICK n : n = base + c.amount
  OBVIOUS
<1>d. PICK dept : dept = c.to
  OBVIOUS
<1>w. PICK w : w = Lock(p, SetGov(draft[p], dept, n))
  OBVIOUS
<1>1. /\ Draft(p, w) /\ Goto(p, "commit") /\ at[p] = "govTo" /\ ~LockedByOthers(p, Wanted(p))
      /\ UNCHANGED <<ledger, gov, recorded, moved, adjusted, call, seen, todo, overlapped, clean>>
  BY <1>e, <1>d, <1>n, <1>w DEF GovTo, tables, history
<1>2. /\ CallShape(p) /\ MoneyShape(p) /\ SeenShape(seen[p]) /\ c \in Calls /\ Plans(p, todo[p])
  BY <1>1, BooksOf, Unchanged
<1>3. c.to \in Departments /\ c.amount \in Nat
  BY <1>2, CallsAreKnown, AccountsAssumption
<1>4. base \in Nat
  <2>1. CASE c.op = "between"
    BY <1>2, <1>e, <2>1 DEF SeenShape, MoneyShape, ReadsSound
  <2>2. CASE c.op # "between"
    <3>1. c.to \in DOMAIN seen[p].gov
      BY <1>1, <1>2, <1>3, <2>2, TouchesDepartments DEF CallShape, Before
    <3> QED  BY <1>2, <1>3, <1>e, <2>2, <3>1 DEF SeenShape, MoneyShape, ReadsSound
  <2> QED  BY <2>1, <2>2
<1>5. n \in Nat /\ dept \in Departments
  BY <1>d, <1>n, <1>3, <1>4
<1> QED  BY <1>1, <1>2, <1>5, <1>w, CachedBooks

LEMMA AlignBooks ==
    ASSUME GInv, BInv, NEW p \in Callers, call[p].op = "ensure", Align(p)
    PROVE  BInv'
<1>d. PICK dept : dept = Head(todo[p]).dept
  OBVIOUS
<1>n. PICK n : n = seen[p].econ
  OBVIOUS
<1>w. PICK w : w = Lock(p, SetGov(draft[p], dept, n))
  OBVIOUS
<1> PICK l : l = Tail(todo[p])
  OBVIOUS
<1> PICK step : step = IF l = <<>> THEN "commit" ELSE "snapshot"
  OBVIOUS
<1>1. /\ Draft(p, w) /\ Goto(p, step) /\ Plans(p, l) /\ at[p] = "align"
      /\ ~LockedByOthers(p, Wanted(p))
      /\ UNCHANGED <<ledger, gov, recorded, moved, adjusted, call, seen, overlapped, clean>>
  BY <1>d, <1>n, <1>w DEF Align, tables, history, NextDepartment, Plans
<1>2. CallShape(p) /\ MoneyShape(p) /\ SeenShape(seen[p])
  BY BooksOf
<1>3. dept \in Departments
  BY <1>1, <1>2, <1>d, HeadIsDepartment
<1>4. n \in Nat
  BY <1>2, <1>n DEF MoneyShape, ReadsSound, SeenShape
<1>5. step \in {"commit", "snapshot"}
  OBVIOUS
<1> QED  BY <1>1, <1>3, <1>4, <1>5, <1>w, CachedBooks

-----------------------------------------------------------------------------
(* A transfer on another connection, and operations outside the service *)

LEMMA PayOutBooks ==
    ASSUME GInv, BInv, NEW p \in Callers, call[p].op \in {"between", "tax"}, PayOut(p)
    PROVE  BInv'
<1> PICK c : c = call[p]
  OBVIOUS
<1> PICK step : step = IF c.op = "tax" THEN "govTo" ELSE "govFrom"
  OBVIOUS
<1>1. /\ at[p] = "payout" /\ Goto(p, step)
      /\ \A q \in Callers : draft[q].locks \cap PayRows(p) = {}
      /\ UNCHANGED <<gov, recorded, adjusted, call, draft, todo, overlapped, clean>>
  BY DEF PayOut, AfterPayOut, history
<1>2. step \in Steps \ {"idle", "plan", "grant"} /\ Holds(step) = 1 /\ Holds("payout") = 2
      /\ step \in {"govTo", "govFrom"}
  BY DEF Steps, Holds
<1>3. /\ MoneyShape(p) /\ SeenShape(seen[p]) /\ c \in Calls /\ Plans(p, todo[p]) /\ Draft(p, draft[p])
      /\ ledger \in [Accounts -> Nat] /\ Departments \subseteq Accounts
  BY <1>1, BooksOf, Unchanged
<1>4. CASE UNCHANGED <<ledger, moved, seen>>
  BY <1>1, <1>2, <1>3, <1>4, GoesOn
<1>5. CASE /\ ledger[c.from] >= c.amount
           /\ ledger' = Moved(ledger, c.from, c.to, c.amount)
           /\ moved' = [moved EXCEPT ![c.op] = @ + c.amount]
           /\ See(p, [seen[p] EXCEPT !.paid = TRUE])
  <2>s. PICK s : s = [seen[p] EXCEPT !.paid = TRUE]
    OBVIOUS
  <2>1. s = [gov |-> seen[p].gov, econ |-> seen[p].econ, econTo |-> seen[p].econTo, paid |-> TRUE]
    BY <2>s, <1>3 DEF SeenShape
  <2>2. c.from \in Accounts /\ c.to \in Accounts /\ c.from # c.to /\ c.amount \in Nat
    <3>1. c.op = "tax" => c.from \notin Departments /\ c.to \in Departments
      BY <1>3, CallsAreKnown
    <3> QED  BY <1>3, <3>1, CallsAreKnown
  <2>f. PICK f \in [Accounts -> Int] : f = ledger
    BY <1>3
  <2>3. /\ ledger' \in [Accounts -> Int]
        /\ \A a \in Accounts :
              ledger'[a] = IF a = c.to THEN ledger[a] + c.amount
                           ELSE IF a = c.from THEN ledger[a] - c.amount ELSE ledger[a]
        /\ SumOf(ledger', Accounts) = SumOf(ledger, Accounts)
    <3>1. ledger' = Moved(f, c.from, c.to, c.amount) /\ c.amount \in Int
      BY <1>5, <2>2, <2>f
    <3>2. /\ ledger' \in [Accounts -> Int]
          /\ \A a \in Accounts :
                ledger'[a] = IF a = c.to THEN f[a] + c.amount
                             ELSE IF a = c.from THEN f[a] - c.amount ELSE f[a]
      BY <3>1 DEF Moved
    <3>3. SumOf(ledger', Accounts) = SumOf(f, Accounts)
      BY <2>2, <3>1, SumOfMoved
    <3> QED  BY <2>f, <3>2, <3>3
  <2>4. ledger' \in [Accounts -> Nat]
    <3>1. \A a \in Accounts : ledger'[a] \in Nat
      BY <1>3, <1>5, <2>2, <2>3
    <3> QED  BY <2>3, <3>1
  <2>5. /\ OthersKept(p) /\ at'[p] = step /\ seen'[p] = s /\ draft'[p] = draft[p]
        /\ todo'[p] = todo[p] /\ call'[p] = c
    <3>1. See(p, s)
      BY <2>s, <1>5
    <3>2. \A d \in Departments : d \notin Touches(c) => ledger'[d] = ledger[d]
      BY <1>3, <2>3, TouchesDepartments
    <3>3. step \notin {"idle", "plan"} /\ at[p] # "idle"
      BY <1>1
    <3>4. /\ Working(p) /\ at'[p] = step /\ seen'[p] = s /\ draft'[p] = draft[p]
          /\ todo'[p] = todo[p] /\ call'[p] = c
      BY <1>1, <1>3, <2>3, <3>1, <3>2, <3>3, StepFrame
    <3> QED  BY <3>4 DEF Working
  <2>6. at' \in [Callers -> Steps] /\ Free' >= 0 /\ LocksApart' /\ IssuancesBounded'
    <3>1. ~Pending(p)'
      BY <2>5 DEF Pending
    <3>2. \A q \in Callers \ {p} : draft[q].locks \cap draft'[p].locks = {}
      BY <2>5 DEF BInv, LocksApart
    <3>3. at'[p] \in Steps /\ Holds(at'[p]) <= Holds(at[p]) /\ recorded'["issue"] = recorded["issue"]
      BY <1>1, <1>2, <2>5
    <3> QED  BY <2>5, <3>1, <3>2, <3>3, StepBounds
  <2>7. Payer(p) = c.from
    BY DEF Payer
  <2>8. ASSUME NEW q \in Callers, NEW a \in Accounts
        PROVE  \/ ledger'[a] = ledger[a]
               \/ draft[q].ledger[a] = 0 /\ ledger'[a] >= 0 /\ ledger'[a] \in Int
    <3>1. CASE a # c.from /\ a # c.to
      BY <2>3, <3>1
    <3>2. CASE a = c.from \/ a = c.to
      <4>1. LedgerRow(a) \in PayRows(p)
        BY <2>7, <3>2 DEF PayRows
      <4>2. LedgerRow(a) \notin draft[q].locks
        BY <1>1, <4>1
      <4>3. WritesSound(q)
        BY DEF BInv, MoneyShape
      <4>4. draft[q].ledger[a] = 0
        BY <4>2, <4>3 DEF WritesSound
      <4> QED  BY <2>4, <4>4
    <3> QED  BY <3>1, <3>2
  <2>9. ASSUME NEW q \in Callers PROVE MoneyShape(q)'
    <3>1. MoneyShape(q)
      BY DEF BInv
    <3>2. CASE q # p
      <4>1. /\ at'[q] = at[q] /\ call'[q] = call[q] /\ seen'[q] = seen[q]
            /\ draft'[q] = draft[q] /\ todo'[q] = todo[q]
        BY <2>5, <3>2 DEF OthersKept
      <4> QED  BY <2>8, <3>1, <4>1, MoneyIsLocal
    <3>3. CASE q = p
      <4>1. ReadsSound(p)'
        BY <1>2, <1>3, <2>1, <2>5 DEF MoneyShape, ReadsSound
      <4>2. WritesSound(p)'
        BY <1>3, <2>5, <2>8 DEF MoneyShape, WritesSound
      <4>3. AddsUp(p)'
        BY <1>3, <2>5 DEF MoneyShape, AddsUp
      <4>4. PaysAmount(p)' /\ HasPayer(p)'
        BY <2>5 DEF PaysAmount, HasPayer
      <4> QED  BY <3>3, <4>1, <4>2, <4>3, <4>4 DEF MoneyShape
    <3> QED  BY <3>2, <3>3
  <2>10. /\ moved' \in [Recorded -> Nat] /\ moved'["issue"] = moved["issue"]
         /\ moved'["welfare"] = moved["welfare"]
    BY <1>5, <2>2 DEF BInv, Tables, Recorded
  <2>11. Tables' /\ BackedRecords'
    BY <1>1, <2>4, <2>10 DEF BInv, Tables, BackedRecords
  <2>12. PointsAccountedFor'
    BY <1>1, <2>3, <2>10 DEF BInv, PointsAccountedFor, Points
  <2> QED  BY <2>6, <2>9, <2>11, <2>12 DEF BInv
<1> QED  BY <1>4, <1>5 DEF PayOut

\* /adjust or /transfer on a department's account.
LEMMA DirectBooks ==
    ASSUME GInv, BInv, NEW o \in DirectOps, DirectOp(o)
    PROVE  BInv'
<1>1. /\ o.to \in Departments /\ o.from \in Users \cup {Nobody} /\ o.amount \in Int
      /\ (o.from # Nobody => o.amount > 0)
      /\ Departments \cap Users = {} /\ Nobody \notin Accounts
  BY DirectOpsAssumption, AccountsAssumption
<1>2. o.to \in Accounts /\ (o.from # Nobody => o.from \in Accounts) /\ o.from # o.to
  BY <1>1 DEF Accounts
<1>3. /\ ledger' = Moved(ledger, o.from, o.to, o.amount)
      /\ adjusted' = (IF o.from = Nobody THEN adjusted + o.amount ELSE adjusted)
      /\ \A q \in Callers : draft[q].locks \cap {LedgerRow(o.to), LedgerRow(o.from)} = {}
      /\ (o.from = Nobody => ledger[o.to] + o.amount >= 0)
      /\ (o.from # Nobody => ledger[o.from] >= o.amount)
      /\ UNCHANGED <<gov, recorded, moved, at, call, seen, draft, todo>>
  BY DEF DirectOp, private
<1>4. ledger \in [Accounts -> Nat] /\ adjusted \in Int
  BY DEF BInv, Tables
<1>f. PICK f \in [Accounts -> Int] : f = ledger
  BY <1>4
<1>5. /\ ledger' \in [Accounts -> Int]
      /\ \A a \in Accounts :
            ledger'[a] = IF a = o.to THEN f[a] + o.amount
                         ELSE IF a = o.from THEN f[a] - o.amount ELSE f[a]
  BY <1>1, <1>3, <1>f DEF Moved
<1>6. ledger' \in [Accounts -> Nat]
  <2>1. \A a \in Accounts : ledger'[a] \in Nat
    BY <1>1, <1>2, <1>3, <1>4, <1>5, <1>f
  <2> QED  BY <1>5, <2>1
<1>7. PointsAccountedFor'
  <2>1. CASE o.from = Nobody
    <3>1. ledger'[o.to] = f[o.to] + o.amount /\ \A a \in Accounts \ {o.to} : ledger'[a] = f[a]
      BY <1>1, <1>2, <1>5, <2>1
    <3>2. SumOf(ledger', Accounts) = SumOf(f, Accounts) + o.amount /\ SumOf(f, Accounts) \in Int
      BY <1>1, <1>2, <3>1, SumGrows
    <3>3. SumOf(f, Accounts) = Points(InitialBalance) + moved["issue"] + adjusted
      BY <1>f DEF BInv, PointsAccountedFor, Points
    <3>4. moved["issue"] \in Nat /\ Points(InitialBalance) \in Int
      <4>1. Integral(InitialBalance, Accounts)
        BY InitialBalanceAssumption DEF Integral
      <4> QED  BY <4>1, AllFinite, SumWithout DEF BInv, Tables, Recorded, Points
    <3>5. SumOf(ledger', Accounts) = Points(InitialBalance) + moved["issue"] + (adjusted + o.amount)
      BY <1>1, <1>4, <3>2, <3>3, <3>4
    <3> QED  BY <1>3, <2>1, <3>5 DEF PointsAccountedFor, Points
  <2>2. CASE o.from # Nobody
    <3>1. ledger' = Moved(f, o.from, o.to, o.amount) /\ o.from \in Accounts
      BY <1>2, <1>3, <1>f, <2>2
    <3>2. SumOf(ledger', Accounts) = SumOf(f, Accounts)
      BY <1>1, <1>2, <3>1, SumOfMoved
    <3> QED  BY <1>3, <1>f, <2>2, <3>2 DEF BInv, PointsAccountedFor, Points
  <2> QED  BY <2>1, <2>2
<1>8. ASSUME NEW q \in Callers PROVE MoneyShape(q)'
  <2>1. MoneyShape(q)
    BY DEF BInv
  <2>2. ASSUME NEW a \in Accounts
        PROVE  \/ ledger'[a] = ledger[a]
               \/ draft[q].ledger[a] = 0 /\ ledger'[a] >= 0 /\ ledger'[a] \in Int
    <3>1. CASE a # o.from /\ a # o.to
      BY <1>5, <1>f, <3>1
    <3>2. CASE a = o.from \/ a = o.to
      <4>1. LedgerRow(a) \notin draft[q].locks
        BY <1>3, <3>2
      <4>2. draft[q].ledger[a] = 0
        BY <2>1, <4>1 DEF MoneyShape, WritesSound
      <4> QED  BY <1>6, <4>2
    <3> QED  BY <3>1, <3>2
  <2> QED  BY <1>3, <2>1, <2>2, MoneyIsLocal
<1>9. Free' >= 0 /\ LocksApart' /\ BackedRecords' /\ at' \in [Callers -> Steps]
  <2>1. Free' = Free
    BY <1>3 DEF Free, Held
  <2> QED  BY <1>3, <2>1 DEF BInv, LocksApart, BackedRecords
<1>10. IssuancesBounded'
  <2>1. Owed' = Owed /\ \A q \in Callers : Pending(q)' <=> Pending(q)
    BY <1>3 DEF Owed, Pending
  <2> QED  BY <1>3, <2>1 DEF BInv, IssuancesBounded, Largest
<1>11. Tables'
  BY <1>1, <1>3, <1>4, <1>6 DEF BInv, Tables
<1> QED  BY <1>7, <1>8, <1>9, <1>10, <1>11 DEF BInv

-----------------------------------------------------------------------------
(* The beginning and the end of a call *)

LEMMA NothingWritten ==
    /\ NothingSeen.econ = 0 /\ NothingSeen.econTo = 0 /\ DOMAIN NothingSeen.gov = {}
    /\ DOMAIN EmptyDraft.gov = {} /\ EmptyDraft.moved = 0 /\ EmptyDraft.adjusted = 0
    /\ \A a \in Accounts : EmptyDraft.ledger[a] = 0
    /\ SumOf(EmptyDraft.ledger, Accounts) = 0
<1>1. /\ NothingSeen.econ = 0 /\ NothingSeen.econTo = 0 /\ NothingSeen.gov = <<>>
      /\ EmptyDraft.gov = <<>> /\ EmptyDraft.moved = 0 /\ EmptyDraft.adjusted = 0
      /\ \A a \in Accounts : EmptyDraft.ledger[a] = 0
  BY DEF NothingSeen, EmptyDraft
<1>2. DOMAIN <<>> = {}
  OBVIOUS
<1>3. SumOf(EmptyDraft.ledger, Accounts) = 0
  BY <1>1, AllFinite, SumOfZeros
<1> QED  BY <1>1, <1>2, <1>3

LEMMA FreshMoney ==
    ASSUME NEW p \in Callers, at'[p] \in {"idle", "plan", "acquire"},
           seen'[p] = NothingSeen, draft'[p] = EmptyDraft, ledger' \in [Accounts -> Nat],
           call'[p].op = "auto" => at'[p] # "acquire"
    PROVE  MoneyShape(p)'
BY NothingWritten DEF MoneyShape, ReadsSound, WritesSound, AddsUp, PaysAmount, HasPayer

LEMMA Finished ==
    ASSUME GInv, NEW p \in Callers, Finish(p)
    PROVE  /\ OthersKept(p) /\ at'[p] = "idle" /\ call'[p] = NoCall /\ seen'[p] = NothingSeen
           /\ draft'[p] = EmptyDraft
BY DEF GInv, Shape, Finish, OthersKept, Goto, See, Draft

LEMMA StartBooks ==
    ASSUME GInv, BInv, NEW p \in Callers, NEW c \in Calls, Start(p, c)
    PROVE  BInv'
<1> PICK step : step = IF c.op = "auto" THEN "plan" ELSE "acquire"
  OBVIOUS
<1>1. /\ at[p] = "idle" /\ draft[p] = EmptyDraft /\ seen[p] = NothingSeen
  BY Unchanged DEF Start, CallShape, Before
<1>2. /\ at' = [at EXCEPT ![p] = step] /\ call' = [call EXCEPT ![p] = c]
      /\ UNCHANGED <<ledger, gov, recorded, moved, adjusted, seen, draft, todo>>
  BY DEF Start, Goto, tables, private
<1>3. OthersKept(p) /\ at'[p] = step /\ call'[p] = c
  BY <1>2 DEF GInv, Shape, OthersKept
<1>4. step \in {"plan", "acquire"} /\ (c.op = "auto" => step # "acquire")
  OBVIOUS
<1>5. MoneyShape(p)'
  <2>1. ledger' \in [Accounts -> Nat]
    BY <1>2 DEF BInv, Tables
  <2>2. seen'[p] = NothingSeen /\ draft'[p] = EmptyDraft
    BY <1>1, <1>2
  <2> QED  BY <1>3, <1>4, <2>1, <2>2, FreshMoney
<1>6. ~Pending(p)'
  BY <1>3, <1>4 DEF Pending
<1>7. \A q \in Callers \ {p} : draft[q].locks \cap draft'[p].locks = {}
  BY <1>2 DEF BInv, LocksApart
<1>8. at'[p] \in Steps /\ Holds(at'[p]) <= Holds(at[p])
  BY <1>1, <1>3, <1>4 DEF Steps, Holds
<1> QED  BY <1>2, <1>3, <1>5, <1>6, <1>7, <1>8, BooksFrame

LEMMA EndBounds ==
    ASSUME GInv, BInv, NEW p \in Callers, Finish(p)
    PROVE  /\ \A q \in Callers \ {p} : draft[q].locks \cap draft'[p].locks = {}
           /\ at'[p] \in Steps /\ Holds(at'[p]) <= Holds(at[p]) /\ ~Pending(p)'
<1>1. at'[p] = "idle" /\ draft'[p] = EmptyDraft
  BY Finished
<1>2. EmptyDraft.locks = {}
  BY DEF EmptyDraft
<1> QED  BY <1>1, <1>2 DEF Steps, Holds, Pending

\* A call that is refused, cut off or the victim of a deadlock.
LEMMA RollbackBooks ==
    ASSUME GInv, BInv, NEW p \in Callers, Finish(p),
           UNCHANGED <<ledger, gov, recorded, moved, adjusted>>
    PROVE  BInv'
<1>1. /\ OthersKept(p) /\ at'[p] = "idle" /\ call'[p] = NoCall /\ seen'[p] = NothingSeen
      /\ draft'[p] = EmptyDraft
  BY Finished
<1>2. ledger' \in [Accounts -> Nat] /\ NoCall.op = "none"
  BY DEF BInv, Tables, NoCall
<1>3. MoneyShape(p)'
  BY <1>1, <1>2, FreshMoney
<1> QED  BY <1>1, <1>3, EndBounds, BooksFrame

LEMMA CommitBooks ==
    ASSUME GInv, BInv, NEW p \in Callers, Commit(p)
    PROVE  BInv'
<1> PICK c : c = call[p]
  OBVIOUS
<1> PICK w : w = draft[p]
  OBVIOUS
<1>1. /\ at[p] = "commit" /\ Finish(p)
      /\ ledger' = [a \in Accounts |-> ledger[a] + w.ledger[a]]
      /\ gov' = [d \in Departments |-> IF d \in DOMAIN w.gov THEN w.gov[d] ELSE gov[d]]
      /\ recorded' = [k \in Recorded |-> recorded[k] + IF k = c.op THEN c.amount ELSE 0]
      /\ moved' = [k \in Recorded |-> moved[k] + IF k = c.op THEN w.moved ELSE 0]
      /\ adjusted' = adjusted + w.adjusted
  BY DEF Commit
<1>2. /\ OthersKept(p) /\ at'[p] = "idle" /\ call'[p] = NoCall /\ seen'[p] = NothingSeen
      /\ draft'[p] = EmptyDraft
  BY <1>1, Finished
<1>3. /\ MoneyShape(p) /\ DraftShape(w) /\ c \in Calls
      /\ ledger \in [Accounts -> Nat] /\ gov \in [Departments -> Nat]
  BY <1>1, BooksOf
<1>4. w.ledger \in [Accounts -> Int] /\ w.moved \in Nat /\ w.adjusted \in Int /\ c.amount \in Nat
  BY <1>3, CallsAreKnown DEF DraftShape, MoneyShape, AddsUp
<1>5. ledger' \in [Accounts -> Nat]
  <2>1. \A a \in Accounts : ledger[a] + w.ledger[a] \in Nat
    BY <1>3, <1>4 DEF MoneyShape, WritesSound
  <2> QED  BY <1>1, <2>1
<1>6. gov' \in [Departments -> Nat]
  <2>1. \A d \in Departments : d \in DOMAIN w.gov => w.gov[d] \in Nat
    BY <1>3 DEF MoneyShape, WritesSound, DraftShape
  <2> QED  BY <1>1, <1>3, <2>1
<1>7. recorded \in [Recorded -> Nat] /\ moved \in [Recorded -> Nat] /\ adjusted \in Int
  BY DEF BInv, Tables
<1>8. Tables'
  <2>1. recorded' \in [Recorded -> Nat]
    BY <1>1, <1>4, <1>7
  <2>2. moved' \in [Recorded -> Nat]
    BY <1>1, <1>4, <1>7
  <2>3. adjusted' \in Int
    BY <1>1, <1>4, <1>7
  <2> QED  BY <1>5, <1>6, <2>1, <2>2, <2>3 DEF Tables
<1>9. /\ c.op = "welfare" => w.moved = c.amount
      /\ c.op = "issue" => w.moved = c.amount
  BY <1>1, <1>3 DEF MoneyShape, PaysAmount
<1>10. BackedRecords'
  <2>1. ASSUME NEW k \in {"welfare", "issue"} PROVE recorded'[k] = moved'[k]
    <3>1. recorded[k] = moved[k] /\ k \in Recorded
      BY DEF BInv, BackedRecords, Recorded
    <3> QED  BY <1>1, <1>9, <3>1
  <2> QED  BY <2>1 DEF BackedRecords
<1>11. PointsAccountedFor'
  <2>1. Integral(ledger, Accounts) /\ Integral(w.ledger, Accounts)
        /\ \A a \in Accounts : ledger'[a] = ledger[a] + w.ledger[a]
    BY <1>1, <1>3, <1>4 DEF Integral
  <2>2. SumOf(ledger', Accounts) = SumOf(ledger, Accounts) + SumOf(w.ledger, Accounts)
    BY <2>1, AllFinite, SumPlus
  <2>3. SumOf(w.ledger, Accounts) = w.adjusted + IF c.op = "issue" THEN w.moved ELSE 0
    BY <1>3 DEF MoneyShape, AddsUp
  <2>4. SumOf(ledger, Accounts) = SumOf(InitialBalance, Accounts) + moved["issue"] + adjusted
    BY DEF BInv, PointsAccountedFor, Points
  <2>5. moved'["issue"] = moved["issue"] + (IF c.op = "issue" THEN w.moved ELSE 0)
        /\ moved["issue"] \in Nat
    BY <1>1, <1>7 DEF Recorded
  <2>6. SumOf(InitialBalance, Accounts) \in Int
    <3>1. Integral(InitialBalance, Accounts)
      BY InitialBalanceAssumption DEF Integral
    <3> QED  BY <3>1, AllFinite, SumWithout
  <2>7. SumOf(ledger', Accounts) = SumOf(InitialBalance, Accounts) + moved'["issue"] + adjusted'
    BY <1>1, <1>4, <1>7, <2>2, <2>3, <2>4, <2>5, <2>6
  <2> QED  BY <2>7 DEF PointsAccountedFor, Points
<1>12. \A q \in Callers : MoneyShape(q)'
  <2> SUFFICES ASSUME NEW q \in Callers PROVE MoneyShape(q)'
    OBVIOUS
  <2>1. CASE q = p
    <3>1. NoCall.op = "none"
      BY DEF NoCall
    <3> QED  BY <1>2, <1>5, <2>1, <3>1, FreshMoney
  <2>2. CASE q # p
    <3>1. MoneyShape(q)
      BY DEF BInv
    <3>2. /\ at'[q] = at[q] /\ call'[q] = call[q] /\ seen'[q] = seen[q]
          /\ draft'[q] = draft[q] /\ todo'[q] = todo[q]
      BY <1>2, <2>2 DEF OthersKept
    <3>3. ASSUME NEW a \in Accounts
          PROVE  \/ ledger'[a] = ledger[a]
                 \/ draft[q].ledger[a] = 0 /\ ledger'[a] >= 0 /\ ledger'[a] \in Int
      <4>1. CASE draft[q].ledger[a] = 0
        BY <1>5, <4>1
      <4>2. CASE draft[q].ledger[a] # 0
        <5>1. LedgerRow(a) \in draft[q].locks
          BY <3>1, <4>2 DEF MoneyShape, WritesSound
        <5>2. LedgerRow(a) \notin w.locks
          BY <2>2, <5>1 DEF BInv, LocksApart
        <5>3. w.ledger[a] = 0
          BY <1>3, <5>2 DEF MoneyShape, WritesSound
        <5> QED  BY <1>1, <1>3, <5>3
      <4> QED  BY <4>1, <4>2
    <3> QED  BY <3>1, <3>2, <3>3, MoneyIsLocal
  <2> QED  BY <2>1, <2>2
<1>13. \A q \in Callers \ {p} : at'[q] = at[q] /\ call'[q] = call[q]
  BY <1>2 DEF OthersKept
<1>14. at' \in [Callers -> Steps] /\ Free' >= 0 /\ LocksApart'
  <2>1. at' \in [Callers -> Steps]
    BY <1>1, <1>2, EndBounds DEF BInv, OthersKept
  <2>2. Free' >= 0
    BY <1>1, <1>13, EndBounds, FreeAfter DEF BInv
  <2>3. LocksApart'
    BY <1>1, <1>2, EndBounds, LocksStayApart DEF BInv
  <2> QED  BY <2>1, <2>2, <2>3
<1>15. IssuancesBounded'
  <2> SUFFICES ASSUME MaxIssuance > 0
               PROVE  /\ \A q \in Callers : Pending(q)' => call'[q].amount <= MaxIssuance
                      /\ recorded'["issue"] + SumOf(Owed', Callers)
                            <= MaxIssuance + (Cardinality(Callers) - 1) * Largest
    BY DEF IssuancesBounded, Largest
  <2>1. /\ \A q \in Callers : Pending(q) => call[q].amount <= MaxIssuance
        /\ recorded["issue"] + SumOf(Owed, Callers)
              <= MaxIssuance + (Cardinality(Callers) - 1) * Largest
    BY DEF BInv, IssuancesBounded
  <2>2. ~Pending(p)'
    BY <1>1, EndBounds
  <2>3. \A q \in Callers : Pending(q) => call[q].amount \in Nat
    BY PendingAmounts
  <2>4. /\ SumOf(Owed, Callers) \in Nat
        /\ SumOf(Owed', Callers) = SumOf(Owed, Callers) - IF Pending(p) THEN c.amount ELSE 0
    BY <1>13, <2>2, <2>3, OwedAfter
  <2>5. Pending(p) <=> c.op = "issue"
    BY <1>1 DEF Pending
  <2>6. recorded'["issue"] = recorded["issue"] + (IF c.op = "issue" THEN c.amount ELSE 0)
        /\ recorded["issue"] \in Nat
    BY <1>1, <1>7 DEF Recorded
  <2>7. recorded'["issue"] + SumOf(Owed', Callers) = recorded["issue"] + SumOf(Owed, Callers)
    BY <1>4, <2>4, <2>5, <2>6
  <2>8. \A q \in Callers : Pending(q)' => call'[q].amount <= MaxIssuance
    BY <1>13, <2>1, <2>2 DEF Pending
  <2> QED  BY <2>1, <2>7, <2>8
<1> QED  BY <1>8, <1>10, <1>11, <1>12, <1>14, <1>15 DEF BInv

LEMMA BInvInit == Init => BInv
<1> SUFFICES ASSUME Init PROVE BInv
  OBVIOUS
<1>1. \A p \in Callers :
         /\ at[p] = "idle" /\ call[p] = NoCall /\ seen[p] = NothingSeen /\ draft[p] = EmptyDraft
  BY DEF Init
<1>2. Tables /\ ledger = InitialBalance
  BY InitialBalanceAssumption DEF Init, Tables, Accounts, Recorded
<1>3. at \in [Callers -> Steps]
  BY DEF Init, Steps
<1>4. Free >= 0
  <2>1. \A p \in Callers : Held[p] = 0
    BY <1>1 DEF Held
  <2>2. SumOf(Held, Callers) = 0
    BY <2>1, AllFinite, SumOfZeros
  <2> QED  BY <2>2, TreasuryBoundsAssumption DEF Free
<1>5. LocksApart
  BY <1>1 DEF LocksApart, EmptyDraft
<1>6. \A p \in Callers : MoneyShape(p)
  <2>1. ledger \in [Accounts -> Nat] /\ NoCall.op = "none"
    BY <1>2 DEF Tables, NoCall
  <2> SUFFICES ASSUME NEW p \in Callers PROVE MoneyShape(p)
    OBVIOUS
  <2>2. ReadsSound(p)
    BY <1>1, NothingWritten DEF ReadsSound
  <2>3. WritesSound(p)
    BY <1>1, <2>1, NothingWritten DEF WritesSound
  <2>4. AddsUp(p)
    <3>1. SumOf(draft[p].ledger, Accounts) = 0 /\ draft[p].adjusted = 0
      BY <1>1, NothingWritten
    <3> QED  BY <1>1, <2>1, <3>1 DEF AddsUp
  <2>5. PaysAmount(p)
    BY <1>1, <2>1 DEF PaysAmount
  <2>6. HasPayer(p)
    BY <1>1 DEF HasPayer
  <2> QED  BY <2>2, <2>3, <2>4, <2>5, <2>6 DEF MoneyShape
<1>7. PointsAccountedFor
  <2>1. Points(InitialBalance) \in Int
    <3>1. Integral(InitialBalance, Accounts)
      BY InitialBalanceAssumption DEF Integral
    <3> QED  BY <3>1, AllFinite, SumWithout DEF Points
  <2>2. moved["issue"] = 0 /\ adjusted = 0
    BY DEF Init, Recorded
  <2> QED  BY <1>2, <2>1, <2>2 DEF PointsAccountedFor
<1>8. BackedRecords
  BY DEF Init, BackedRecords, Recorded
<1>9. IssuancesBounded
  <2>1. \A p \in Callers : ~Pending(p) /\ Owed[p] = 0
    BY <1>1 DEF Pending, Owed
  <2>2. SumOf(Owed, Callers) = 0
    BY <2>1, AllFinite, SumOfZeros
  <2>3. recorded["issue"] = 0
    BY DEF Init, Recorded
  <2>4. 0 <= MaxIssuance + (Cardinality(Callers) - 1) * Largest
    <3>1. Largest \in Nat /\ Largest <= MaxIssuance /\ MaxIssuance \in Nat
      BY LargestBounds, TreasuryBoundsAssumption
    <3>2. PICK n \in Nat : n = Cardinality(Callers)
      BY AllFinite, FS_CardinalityType
    <3>3. CASE n = 0
      BY <3>1, <3>2, <3>3
    <3>4. CASE n # 0
      <4>1. (n - 1) * Largest \in Nat
        BY <3>1, <3>2, <3>4
      <4> QED  BY <3>1, <3>2, <4>1
    <3> QED  BY <3>3, <3>4
  <2> QED  BY <2>1, <2>2, <2>3, <2>4 DEF IssuancesBounded
<1> QED  BY <1>2, <1>3, <1>4, <1>5, <1>6, <1>7, <1>8, <1>9 DEF BInv

-----------------------------------------------------------------------------
(* The deduction plan *)

LEMMA AheadOrders ==
    ASSUME NEW bal \in [Departments -> Nat]
    PROVE  /\ \A x, y \in Departments : x # y => x \in Ahead(bal, y) \/ y \in Ahead(bal, x)
           /\ \A x, y, z \in Departments :
                 x \in Ahead(bal, y) /\ y \in Ahead(bal, z) => x \in Ahead(bal, z)
           /\ \A x, y \in Departments : x \in Ahead(bal, y) => y \notin Ahead(bal, x)
           /\ \A x, y \in Departments : x \in Ahead(bal, y) => x # y /\ bal[y] <= bal[x]
<1>1. /\ DOMAIN DepartmentOrder = 1..Len(DepartmentOrder) /\ Len(DepartmentOrder) \in Nat
      /\ \A i, j \in DOMAIN DepartmentOrder : DepartmentOrder[i] = DepartmentOrder[j] => i = j
  BY AccountsAssumption DEF IsInjective
<1>2. DOMAIN DepartmentOrder \subseteq Int
  BY <1>1
<1>3. \A d \in Departments : \E i \in DOMAIN DepartmentOrder : DepartmentOrder[i] = d
  BY DEF Departments, Range
<1>p. PICK place : place = [d \in Departments |->
                               CHOOSE i \in DOMAIN DepartmentOrder : DepartmentOrder[i] = d]
  OBVIOUS
<1>4. \A d \in Departments :
         /\ place[d] \in DOMAIN DepartmentOrder /\ place[d] \in Int /\ DepartmentOrder[place[d]] = d
         /\ \A i \in DOMAIN DepartmentOrder : DepartmentOrder[i] = d => i = place[d]
  <2> SUFFICES ASSUME NEW d \in Departments
               PROVE  /\ place[d] \in DOMAIN DepartmentOrder /\ DepartmentOrder[place[d]] = d
    BY <1>1, <1>2
  <2>1. place[d] = CHOOSE i \in DOMAIN DepartmentOrder : DepartmentOrder[i] = d
    BY <1>p
  <2> QED  BY <1>3, <2>1
<1>5. \A e, d \in Departments :
         e \in Ahead(bal, d) <=> bal[e] > bal[d] \/ (bal[e] = bal[d] /\ place[e] < place[d])
  <2> SUFFICES ASSUME NEW e \in Departments, NEW d \in Departments
               PROVE  (\E i, j \in DOMAIN DepartmentOrder :
                          i < j /\ DepartmentOrder[i] = e /\ DepartmentOrder[j] = d)
                      <=> place[e] < place[d]
    BY DEF Ahead
  <2> QED  BY <1>4
<1>6. \A x, y \in Departments : x # y => place[x] # place[y]
  BY <1>4
<1>7. \A d \in Departments : bal[d] \in Nat /\ place[d] \in Int
  BY <1>4
<1>8. ASSUME NEW x \in Departments, NEW y \in Departments
      PROVE  /\ x # y => x \in Ahead(bal, y) \/ y \in Ahead(bal, x)
             /\ x \in Ahead(bal, y) => y \notin Ahead(bal, x)
             /\ x \in Ahead(bal, y) => x # y /\ bal[y] <= bal[x]
  BY <1>5, <1>6, <1>7
<1>9. ASSUME NEW x \in Departments, NEW y \in Departments, NEW z \in Departments,
             x \in Ahead(bal, y), y \in Ahead(bal, z)
      PROVE  x \in Ahead(bal, z)
  BY <1>5, <1>7, <1>9
<1> QED  BY <1>8, <1>9

InOrder(bal, s) == \A i, j \in DOMAIN s : i < j => s[i] \in Ahead(bal, s[j])

\* Some departments can be put in the order of their balances.
LEMMA CanBeSorted ==
    ASSUME NEW bal \in [Departments -> Nat], NEW T \in SUBSET Departments
    PROVE  \E s \in [1..Cardinality(T) -> T] : InOrder(bal, s)
<1> DEFINE G == {t \in SUBSET T : \E s \in [1..Cardinality(t) -> t] : InOrder(bal, s)}
<1>f. IsFiniteSet(T)
  BY AllFinite, FS_Subset
<1>R. PICK R : R = {e \in Departments \X Departments : e[1] \in Ahead(bal, e[2])}
  OBVIOUS
<1>1. \A x, y \in Departments : <<x, y>> \in R <=> x \in Ahead(bal, y)
  BY <1>R
<1>2. ASSUME NEW t \in SUBSET T, \A u \in SUBSET t : u # t => u \in G
      PROVE  t \in G
  <2>f. IsFiniteSet(t)
    BY <1>f, FS_Subset
  <2>1. CASE t = {}
    <3>1. Cardinality(t) = 0
      BY <2>1, FS_EmptySet
    <3>s. PICK s : s = [i \in 1..0 |-> {}]
      OBVIOUS
    <3>2. s \in [1..Cardinality(t) -> t] /\ InOrder(bal, s)
      BY <3>1, <3>s DEF InOrder
    <3> QED  BY <3>2
  <2>2. CASE t # {}
    <3>1. \A x, y \in t : x # y => (<<x, y>> \in R \/ <<y, x>> \in R)
      BY <1>1, AheadOrders
    <3>2. \A x, y, z \in t : <<x, y>> \in R /\ <<y, z>> \in R => <<x, z>> \in R
      BY <1>1, AheadOrders
    <3>3. PICK x \in t : \A y \in t : y # x => <<x, y>> \in R
      BY <2>2, <2>f, <3>1, <3>2, FirstInOrder, ZenonT(40)
    <3>u. PICK u : u = t \ {x}
      OBVIOUS
    <3>4. u \in G
      BY <1>2, <3>u
    <3>5. PICK g \in [1..Cardinality(u) -> u] : InOrder(bal, g)
      BY <3>4
    <3>6. PICK n \in Nat : n = Cardinality(u)
      BY <2>f, <3>u, FS_Subset, FS_CardinalityType
    <3>7. Cardinality(t) = n + 1
      <4>1. Cardinality(u) = Cardinality(t) - 1
        BY <2>f, <3>u, FS_RemoveElement
      <4>2. Cardinality(t) \in Nat
        BY <2>f, FS_CardinalityType
      <4> QED  BY <3>6, <4>1, <4>2
    <3>s. PICK s : s = [i \in 1..(n + 1) |-> IF i = 1 THEN x ELSE g[i - 1]]
      OBVIOUS
    <3>8. DOMAIN g = 1..n /\ \A i \in 1..n : g[i] \in u
      BY <3>5, <3>6
    <3>9. /\ DOMAIN s = 1..(n + 1)
          /\ \A i \in 1..(n + 1) : /\ i = 1 => s[i] = x
                                   /\ i # 1 => i - 1 \in 1..n /\ s[i] = g[i - 1]
      BY <3>s
    <3>10. s \in [1..Cardinality(t) -> t]
      <4>1. \A i \in 1..(n + 1) : s[i] \in t
        BY <3>8, <3>9, <3>u
      <4>2. s = [i \in 1..(n + 1) |-> s[i]]
        BY <3>s, <3>9
      <4> QED  BY <3>7, <4>1, <4>2
    <3>11. InOrder(bal, s)
      <4> SUFFICES ASSUME NEW i \in 1..(n + 1), NEW j \in 1..(n + 1), i < j
                   PROVE  s[i] \in Ahead(bal, s[j])
        BY <3>9 DEF InOrder
      <4>1. j # 1 /\ j - 1 \in 1..n /\ s[j] = g[j - 1] /\ s[j] \in u
        BY <3>8, <3>9
      <4>2. CASE i = 1
        <5>1. s[i] = x /\ s[j] \in t /\ s[j] # x
          BY <3>9, <3>u, <4>1, <4>2
        <5> QED  BY <1>1, <3>3, <5>1
      <4>3. CASE i # 1
        <5>1. i - 1 \in 1..n /\ s[i] = g[i - 1] /\ i - 1 < j - 1
          BY <3>9, <4>3
        <5> QED  BY <3>5, <3>8, <4>1, <5>1 DEF InOrder
      <4> QED  BY <4>2, <4>3
    <3> QED  BY <3>10, <3>11
  <2> QED  BY <2>1, <2>2
<1>3. G = SUBSET T
  <2>1. G \in SUBSET SUBSET T
    OBVIOUS
  <2>2. \A t \in SUBSET T : (\A u \in SUBSET t : u # t => u \in G) => t \in G
    BY <1>2
  <2> HIDE DEF G
  <2> QED  BY <1>f, <2>1, <2>2, SubsetInduction
<1> QED  BY <1>3

LEMMA DeductionType ==
    ASSUME NEW bal \in [Departments -> Nat], NEW d \in Departments, NEW amount \in Nat
    PROVE  Deduction(bal, d, amount) \in Int /\ SumOf(bal, Ahead(bal, d)) \in Int
<1>1. Ahead(bal, d) \subseteq Departments
  BY DEF Ahead
<1>2. IsFiniteSet(Ahead(bal, d)) /\ Integral(bal, Ahead(bal, d))
  BY <1>1, AllFinite, FS_Subset DEF Integral
<1>3. SumOf(bal, Ahead(bal, d)) \in Int
  BY <1>2, SumWithout
<1> QED  BY <1>3 DEF Deduction

\* A state council that has the amount has a department to take from: the richest.
LEMMA SomebodyPays ==
    ASSUME NEW bal \in [Departments -> Nat], NEW amount \in Nat, amount > 0,
           SumOf(bal, Departments) >= amount
    PROVE  \E d \in Departments : Deduction(bal, d, amount) > 0
<1>R. PICK R : R = {e \in Departments \X Departments : e[1] \in Ahead(bal, e[2])}
  OBVIOUS
<1>D. PICK D : D = Departments
  OBVIOUS
<1>1. \A x, y \in D : <<x, y>> \in R <=> x \in Ahead(bal, y)
  BY <1>R, <1>D
<1>2. D # {} /\ IsFiniteSet(D)
  BY <1>D, AccountsAssumption, AllFinite
<1>3. \A x, y \in D : x # y => (<<x, y>> \in R \/ <<y, x>> \in R)
  BY <1>1, <1>D, AheadOrders
<1>4. \A x, y, z \in D : <<x, y>> \in R /\ <<y, z>> \in R => <<x, z>> \in R
  BY <1>1, <1>D, AheadOrders
<1>5. PICK x \in D : \A y \in D : y # x => <<x, y>> \in R
  BY <1>2, <1>3, <1>4, FirstInOrder
<1>x. x \in Departments
  BY <1>D
<1>6. \A y \in Departments : y \notin Ahead(bal, x) /\ bal[y] <= bal[x]
  <2> SUFFICES ASSUME NEW y \in Departments PROVE y \notin Ahead(bal, x) /\ bal[y] <= bal[x]
    OBVIOUS
  <2>1. CASE y = x
    BY <1>D, <2>1, AheadOrders
  <2>2. CASE y # x
    BY <1>1, <1>5, <1>D, <2>2, AheadOrders
  <2> QED  BY <2>1, <2>2
<1>7. bal[x] > 0
  <2> SUFFICES ASSUME bal[x] = 0 PROVE FALSE
    BY <1>x
  <2>1. \A y \in Departments : bal[y] = 0
    BY <1>6
  <2>2. SumOf(bal, Departments) = 0
    BY <1>D, <1>2, <2>1, SumOfZeros
  <2> QED  BY <2>2
<1>8. Ahead(bal, x) = {}
  BY <1>6, <1>x DEF Ahead
<1>9. SumOf(bal, Ahead(bal, x)) = 0
  BY <1>8, FS_EmptySet, SumUnfolds
<1>10. Deduction(bal, x, amount) > 0
  BY <1>7, <1>9, <1>x DEF Deduction
<1> QED  BY <1>10, <1>x

LEMMA PlanHasPayers ==
    ASSUME NEW bal \in [Departments -> Nat], NEW amount \in Nat, amount > 0,
           SumOf(bal, Departments) >= amount, NEW plan, plan = DeductionPlan(bal, amount)
    PROVE  plan \in Seq([dept: Departments, amount: Int]) /\ plan # <<>>
<1>p. PICK payers : payers = {d \in Departments : Deduction(bal, d, amount) > 0}
  OBVIOUS
<1>1. payers \in SUBSET Departments /\ payers # {}
  BY <1>p, SomebodyPays
<1>s. PICK sorted : sorted = CHOOSE s \in [1..Cardinality(payers) -> payers] :
                               \A i, j \in DOMAIN s : i < j => s[i] \in Ahead(bal, s[j])
  OBVIOUS
<1>2. plan = [i \in DOMAIN sorted |->
                 [dept |-> sorted[i], amount |-> Deduction(bal, sorted[i], amount)]]
  BY <1>p, <1>s DEF DeductionPlan
<1>3. \E s \in [1..Cardinality(payers) -> payers] :
         \A i, j \in DOMAIN s : i < j => s[i] \in Ahead(bal, s[j])
  BY <1>1, CanBeSorted DEF InOrder
<1>4. sorted \in [1..Cardinality(payers) -> payers]
  BY <1>s, <1>3
<1>5. PICK n \in Nat : n = Cardinality(payers) /\ n # 0
  <2>1. IsFiniteSet(payers)
    BY <1>1, AllFinite, FS_Subset
  <2> QED  BY <1>1, <2>1, FS_CardinalityType, FS_EmptySet
<1>6. DOMAIN plan = 1..n /\ \A i \in 1..n : sorted[i] \in payers
  BY <1>2, <1>4, <1>5
<1>7. \A i \in 1..n : plan[i] \in [dept: Departments, amount: Int]
  <2> SUFFICES ASSUME NEW i \in 1..n PROVE plan[i] \in [dept: Departments, amount: Int]
    OBVIOUS
  <2>1. sorted[i] \in Departments
    BY <1>1, <1>6
  <2>2. Deduction(bal, sorted[i], amount) \in Int
    BY <2>1, DeductionType
  <2>3. plan[i] = [dept |-> sorted[i], amount |-> Deduction(bal, sorted[i], amount)]
    BY <1>2, <1>4, <1>5
  <2> QED  BY <2>1, <2>2, <2>3
<1>8. plan \in Seq([dept: Departments, amount: Int])
  <2>s. PICK S : S = [dept: Departments, amount: Int]
    OBVIOUS
  <2>1. \A i \in DOMAIN plan : plan[i] \in S
    BY <1>6, <1>7, <2>s
  <2>2. plan \in Seq(S)
    BY <1>2, <1>6, <2>1, IsASeq
  <2> QED  BY <2>2, <2>s
<1>9. plan # <<>>
  <2>1. DOMAIN <<>> = {} /\ 1 \in 1..n
    BY <1>5
  <2> QED  BY <1>6, <2>1
<1> QED  BY <1>8, <1>9

LEMMA PlanBooks ==
    ASSUME GInv, BInv, NEW p \in Callers, call[p].op = "auto", Plan(p)
    PROVE  BInv'
<1>1. at[p] = "plan" /\ UNCHANGED <<ledger, gov, recorded, moved, adjusted, clean>> /\ Free > 0
  BY DEF Plan, tables
<1>2. CASE Finish(p)
  BY <1>1, <1>2, RollbackBooks
<1>3. CASE ~Finish(p)
  <2>a. PICK amount : amount = call[p].amount
    OBVIOUS
  <2>b. PICK bal : bal = [d \in Departments |-> ledger[d]]
    OBVIOUS
  <2>l. PICK l : l = DeductionPlan(bal, amount)
    OBVIOUS
  <2>1. /\ ~(SumOf(ledger, Departments) < amount) /\ Goto(p, "acquire")
        /\ todo' = [todo EXCEPT ![p] = l] /\ UNCHANGED <<call, seen, draft, overlapped>>
    BY <1>3, <2>a, <2>b, <2>l DEF Plan
  <2>2. Plans(p, l)
    BY <2>1 DEF Plans
  <2>3. call[p] \in Calls /\ ledger \in [Accounts -> Nat] /\ Departments \subseteq Accounts
    BY <1>1, BooksOf
  <2>4. amount \in Nat /\ amount > 0
    BY <2>3, <2>a, CallsAreKnown, CallsAssumption
  <2>5. bal \in [Departments -> Nat]
    BY <2>3, <2>b
  <2>6. SumOf(bal, Departments) = SumOf(ledger, Departments) /\ SumOf(bal, Departments) \in Int
    <3>1. Integral(ledger, Departments) /\ Integral(bal, Departments)
          /\ \A d \in Departments : bal[d] = ledger[d]
      BY <2>3, <2>b DEF Integral
    <3>2. SumOf(bal, Departments) = SumOf(ledger, Departments)
      BY <3>1, AllFinite, SumSame
    <3>3. SumOf(bal, Departments) \in Int
      BY <3>1, AllFinite, SumWithout
    <3> QED  BY <3>2, <3>3
  <2>7. SumOf(bal, Departments) >= amount
    BY <2>1, <2>4, <2>6
  <2>8. l \in Seq([dept: Departments, amount: Int]) /\ l # <<>>
    BY <2>4, <2>5, <2>7, <2>l, PlanHasPayers
  <2>9. "acquire" \in Steps \ {"idle", "plan", "grant"} /\ Holds("acquire") = 0 /\ Holds(at[p]) = 0
    BY <1>1 DEF Steps, Holds
  <2>10. UNCHANGED <<ledger, gov, recorded, moved, adjusted, call, seen, draft, overlapped, clean>>
    BY <1>1, <2>1
  <2>11. Holds("acquire") <= Holds(at[p]) /\ at[p] # "idle"
    BY <1>1, <2>9
  <2> QED  BY <2>1, <2>2, <2>8, <2>9, <2>10, <2>11, GoesOn
<1> QED  BY <1>2, <1>3

-----------------------------------------------------------------------------
(* The books balance *)

LEMMA StepKeepsBooks ==
    ASSUME GInv, BInv, NEW p \in Callers, Step(p)
    PROVE  BInv'
<1>1. ASSUME Rollback(p) PROVE BInv'
  BY <1>1, RollbackBooks DEF Rollback, tables
<1>2. CASE disburse_welfare(p)
  <2>1. RefuseWelfare(p) => Rollback(p)
    BY DEF RefuseWelfare
  <2> QED  BY <1>1, <1>2, <2>1, AcquireBooks, ReadBooks, EconBooks, GrantBooks, PayBooks,
              GovFromBooks, CommitBooks DEF disburse_welfare
<1>3. CASE collect_tax(p)
  BY <1>3, AcquireBooks, ReadBooks, BorrowBooks, PayOutBooks, GovToBooks, CommitBooks
     DEF collect_tax
<1>4. CASE issue_currency(p)
  <2>1. CASE Sum(p)
    <3>1. at[p] = "sum" /\ call[p].op = "issue"
      BY <1>4, <2>1 DEF Sum, issue_currency
    <3>2. CASE Rollback(p)
      BY <1>1, <3>2
    <3>3. CASE ~Rollback(p)
      <4>1. /\ ~(MaxIssuance > 0 /\ recorded["issue"] + call[p].amount > MaxIssuance)
            /\ Goto(p, "permit")
            /\ UNCHANGED <<ledger, gov, recorded, moved, adjusted, call, seen, draft, todo, overlapped, clean>>
        BY <2>1, <3>3 DEF Sum, tables, private, history
      <4>2. recorded["issue"] \in Nat /\ call[p] \in Calls /\ MaxIssuance \in Nat
        BY <3>1, BooksOf, TreasuryBoundsAssumption DEF BInv, Tables, Recorded
      <4>3. call[p].amount \in Nat
        BY <4>2, CallsAreKnown
      <4>4. MaxIssuance > 0 => recorded["issue"] + call[p].amount <= MaxIssuance
        BY <4>1, <4>2, <4>3
      <4> QED  BY <3>1, <4>1, <4>4, SumBooks
    <3> QED  BY <3>2, <3>3
  <2>2. CASE Permit(p)
    <3>1. /\ at[p] = "permit" /\ call[p].op = "issue" /\ Goto(p, "read")
          /\ UNCHANGED <<ledger, gov, recorded, moved, adjusted, call, seen, draft, todo, overlapped, clean>>
      BY <1>4, <2>2 DEF Permit, issue_currency, tables, private, history
    <3> QED  BY <3>1, SumBooks
  <2> QED  BY <1>4, <2>1, <2>2, AcquireBooks, ReadBooks, MintBooks, GovToBooks, CommitBooks
           DEF issue_currency
<1>5. CASE transfer_between_departments(p)
  BY <1>5, AcquireBooks, ReadBooks, EconBooks, GrantBooks, EconToBooks, BorrowBooks, PayOutBooks,
     GovFromBooks, GovToBooks, CommitBooks DEF transfer_between_departments
<1>6. CASE transfer_department_to_user(p)
  <2>1. RefuseToUser(p) => Rollback(p)
    BY DEF RefuseToUser
  <2>2. CASE AssumePaid(p)
    <3>1. /\ at[p] = "pay" /\ call[p].op = "touser" /\ Goto(p, "govFrom")
          /\ UNCHANGED <<ledger, gov, recorded, moved, adjusted, call, seen, draft, todo, overlapped, clean>>
      BY <1>6, <2>2 DEF AssumePaid, AtPay, transfer_department_to_user, tables, private, history
    <3> QED  BY <3>1, AssumedBooks
  <2> QED  BY <1>1, <1>6, <2>1, <2>2, AcquireBooks, ReadBooks, EconBooks, GrantBooks, PayBooks,
              GovFromBooks, CommitBooks DEF transfer_department_to_user
<1>7. CASE transfer_from_state_council_auto_deduct(p)
  <2>1. CASE SkipDepartment(p)
    <3>1. /\ at[p] = "pay" /\ call[p].op = "auto" /\ NextDepartment(p, "pay")
          /\ UNCHANGED <<ledger, gov, recorded, moved, adjusted, call, seen, draft, overlapped, clean>>
      BY <1>7, <2>1 DEF SkipDepartment, AtPay, transfer_from_state_council_auto_deduct,
                        tables, history
    <3> QED  BY <3>1, SkipBooks
  <2> QED  BY <1>7, <2>1, PlanBooks, AcquireBooks, PayBooks, GovFromBooks, CommitBooks
           DEF transfer_from_state_council_auto_deduct
<1>8. CASE ensure_government_accounts(p)
  BY <1>8, AcquireBooks, ReadBooks, SnapshotBooks, AlignBooks, CommitBooks
     DEF ensure_government_accounts
<1>9. CASE Victim(p)
  <2>2. CASE /\ at[p] = "pay" /\ call[p].op = "auto" /\ NextDepartment(p, "pay")
             /\ UNCHANGED <<tables, call, seen, draft, history>>
    BY <2>2, SkipBooks DEF tables, history
  <2>3. CASE /\ at[p] = "pay" /\ call[p].op = "touser" /\ Goto(p, "govFrom")
             /\ UNCHANGED <<tables, call, private, history>>
    BY <2>3, AssumedBooks DEF tables, private, history
  <2>4. CASE Rollback(p)
    BY <1>1, <2>4
  <2> QED  BY <1>9, <2>2, <2>3, <2>4 DEF Victim
<1> QED  BY <1>2, <1>3, <1>4, <1>5, <1>6, <1>7, <1>8, <1>9 DEF Step

LEMMA StutterKeepsBooks ==
    ASSUME BInv, UNCHANGED vars
    PROVE  BInv'
<1>1. UNCHANGED <<ledger, gov, recorded, moved, adjusted, at, call, seen, draft, todo>>
  BY DEF vars, tables, private, history
<1>2. \A q \in Callers : MoneyShape(q)'
  <2> SUFFICES ASSUME NEW q \in Callers PROVE MoneyShape(q)'
    OBVIOUS
  <2>1. MoneyShape(q)
    BY DEF BInv
  <2> QED  BY <1>1, <2>1, MoneyIsLocal
<1>3. Held' = Held
  BY <1>1 DEF Held
<1>4. Owed' = Owed
  BY <1>1 DEF Owed, Pending
<1>5. Free' >= 0
  BY <1>3 DEF BInv, Free
<1>6. IssuancesBounded'
  <2>1. SumOf(Owed', Callers) = SumOf(Owed, Callers)
    BY <1>4
  <2> QED  BY <1>1, <2>1 DEF BInv, IssuancesBounded, Pending, Largest
<1>7. Tables' /\ at' \in [Callers -> Steps] /\ LocksApart' /\ PointsAccountedFor' /\ BackedRecords'
  BY <1>1 DEF BInv, Tables, LocksApart, PointsAccountedFor, BackedRecords
<1> QED  BY <1>2, <1>5, <1>6, <1>7 DEF BInv

LEMMA BInvStep == GInv /\ BInv /\ [Next]_vars => BInv'
<1> SUFFICES ASSUME GInv, BInv, [Next]_vars PROVE BInv'
  OBVIOUS
<1>1. CASE UNCHANGED vars
  BY <1>1, StutterKeepsBooks
<1>2. ASSUME NEW p \in Callers, NEW c \in Calls, Start(p, c) PROVE BInv'
  BY <1>2, StartBooks
<1>3. ASSUME NEW p \in Callers, Step(p) PROVE BInv'
  BY <1>3, StepKeepsBooks
<1>4. ASSUME NEW p \in Callers, Fail(p) PROVE BInv'
  <2>1. Finish(p) /\ UNCHANGED <<ledger, gov, recorded, moved, adjusted>>
    BY <1>4 DEF Fail, tables
  <2> QED  BY <2>1, RollbackBooks
<1>5. ASSUME NEW o \in DirectOps, DirectOp(o) PROVE BInv'
  BY <1>5, DirectBooks
<1> QED  BY <1>1, <1>2, <1>3, <1>4, <1>5 DEF Next

LEMMA BooksFollow == GInv /\ BInv => BooksAreSound
<1> SUFFICES ASSUME GInv, BInv PROVE BooksAreSound
  OBVIOUS
<1>1. TypeOK
  <2>1. \A p \in Callers :
           /\ DOMAIN seen[p] = DOMAIN NothingSeen /\ DOMAIN seen[p].gov \subseteq Departments
           /\ DOMAIN draft[p] = DOMAIN EmptyDraft /\ DOMAIN draft[p].gov \subseteq Departments
           /\ \A d \in DOMAIN draft[p].gov : draft[p].gov[d] >= 0
           /\ \A a \in Accounts : View(p, a) >= 0
    <3> SUFFICES ASSUME NEW p \in Callers
                 PROVE  /\ DOMAIN seen[p] = DOMAIN NothingSeen
                        /\ DOMAIN seen[p].gov \subseteq Departments
                        /\ DOMAIN draft[p] = DOMAIN EmptyDraft
                        /\ DOMAIN draft[p].gov \subseteq Departments
                        /\ \A d \in DOMAIN draft[p].gov : draft[p].gov[d] >= 0
                        /\ \A a \in Accounts : View(p, a) >= 0
      OBVIOUS
    <3>1. SeenShape(seen[p]) /\ DraftShape(draft[p]) /\ MoneyShape(p)
          /\ \A a \in Accounts : View(p, a) \in Nat
      BY BooksOf
    <3>2. DOMAIN seen[p] = DOMAIN NothingSeen
      BY <3>1 DEF SeenShape, NothingSeen
    <3>3. DOMAIN draft[p] = DOMAIN EmptyDraft
      BY <3>1 DEF DraftShape, EmptyDraft
    <3> QED  BY <3>1, <3>2, <3>3 DEF MoneyShape, ReadsSound, WritesSound
  <2>2. call \in [Callers -> Calls \cup {NoCall}]
    <3>1. \A p \in Callers : call[p] \in Calls \cup {NoCall}
      BY DEF GInv, Shape, CallShape
    <3>2. call = [p \in Callers |-> call[p]]
      BY DEF GInv, Shape
    <3> QED  BY <3>1, <3>2
  <2>3. overlapped \subseteq Active
    BY DEF GInv, Shape, CallShape, Active
  <2> QED  BY <2>1, <2>2, <2>3 DEF TypeOK, BInv, Tables, GInv
<1>2. IssuanceOvershootBounded
  <2> SUFFICES ASSUME MaxIssuance > 0
               PROVE  recorded["issue"] <= MaxIssuance + (Cardinality(Callers) - 1) * Largest
    BY DEF IssuanceOvershootBounded, Largest
  <2>1. recorded["issue"] + SumOf(Owed, Callers)
           <= MaxIssuance + (Cardinality(Callers) - 1) * Largest
    BY DEF BInv, IssuancesBounded
  <2>2. PICK slack \in Int : slack = (Cardinality(Callers) - 1) * Largest
    <3>1. Cardinality(Callers) - 1 \in Int /\ Largest \in Int
      BY AllFinite, FS_CardinalityType, LargestBounds
    <3> QED  BY <3>1
  <2>3. SumOf(Owed, Callers) \in Nat
    <3>1. \A q \in Callers : Owed[q] \in Nat
      BY PendingAmounts DEF Owed
    <3> QED  BY <3>1, AllFinite, SumOfNats
  <2>4. recorded["issue"] \in Nat /\ MaxIssuance \in Nat
    BY TreasuryBoundsAssumption DEF BInv, Tables, Recorded
  <2> QED  BY <2>1, <2>2, <2>3, <2>4
<1> QED  BY <1>1, <1>2 DEF BooksAreSound, BInv

\* Whatever the calls of the state council, their interleaving, their refusals,
\* deadlocks and lost connections: no balance is negative, in the tables or as
\* a transaction sees them; points come only from issuances and adjustments; a
\* welfare payment and an issuance are recorded exactly when they were made;
\* and the issuances of a month exceed the limit by no more than one issuance
\* within it for every other caller.
THEOREM BooksBalance == Spec => []BooksAreSound
<1>1. Spec => [](GInv /\ BInv)
  <2>1. Init => GInv /\ BInv
    BY GInvInit, BInvInit
  <2>2. GInv /\ BInv /\ [Next]_vars => GInv' /\ BInv'
    BY GInvStep, BInvStep
  <2> QED  BY <2>1, <2>2, PTL DEF Spec
<1> QED  BY <1>1, BooksFollow, PTL

=============================================================================
